---- MODULE Spec2Model ----
(***************************************************************************)
(* Model of the dekl reconciliation engine (src/dekl): the package plan    *)
(* (plan.py), the hook ledger (hooks.py, state.py), service reconciliation *)
(* (services.py) and dotfile convergence (dotfiles.py).                    *)
(*                                                                         *)
(* Strings that the code formats, splits or prefix-matches (hook keys,     *)
(* ledger keys of services, paths with a backup suffix) are sequences of   *)
(* tokens, so that formatting followed by parsing is computed, not assumed. *)
(* Each component has its own specification (SpecPlan, SpecHooks,          *)
(* SpecServices, SpecDotfiles); the variables of the other components stay *)
(* at their initial value there.                                           *)
(***************************************************************************)
EXTENDS Integers, Sequences, FiniteSets, TLC

VARIABLES
    \* ---- plan.py: inputs and result of compute_package_plan
    pl_declared,     \* declared: list[str]
    pl_installed,    \* installed: set[str]
    pl_orphans,      \* orphans: set[str]
    pl_prune,        \* prune_enabled: bool
    pl_result,       \* the returned tuple (to_install, undeclared, orphans)
    pl_again,        \* the tuple returned once to_install has been installed
    pl_stage,        \* "input" | "planned" | "replanned"
    pl_mode,         \* resolve_prune_mode: the host's auto_prune entry, the --prune /
                     \* --no-prune override, and whether pl_prune was resolved from them
    \* ---- config.py: the packages the modules declare
    mod_packages,    \* module -> list of packages of its module.yaml
    \* ---- hooks.py / state.py: hook declarations and the hooks_run ledger
    hook_cfg,        \* hook key pair -> "none" | "once" | "always"
    hooks_run,       \* state.yaml: keys of state['hooks_run']
    ok_runs,         \* history: successful sync executions of a hook without always since
                     \* the last reset naming it
    h_last,          \* history: what the last hook operation did (before: the ledger it
                     \* found; rearmed: the run follows a reset that removed the key)
    \* ---- services.py: declarations, systemd and the tracked ledger
    mod_services,    \* module -> list of declared Service records
    sys_enabled,     \* (name, user) pairs systemctl is-enabled reports "enabled"
    tracked,         \* state.yaml: keys of state['services']
    s_last,          \* history: what the last sync_services call did
    \* ---- dotfiles.py: resolved links and the file system
    mod_dotfiles,    \* module -> list of resolved links of that module
    mod_tree,        \* module -> its dotfiles declaration and its dotfiles/ directory
    r_last,          \* history: the last get_module_dotfiles call
    fs,              \* path -> entry (absent, regular file, symlink)
    d_last,          \* history: what the last sync_dotfiles call did (mutations: the
                     \* number of renames, unlinks and symlinks it made)
    \* ---- cli.py: the sync and status commands
    missing_modules, \* modules the host config lists that have no module.yaml
    sy_pc,           \* position of sync: "idle", a phase, "done" or "exited"
    sy_i,            \* position in the module loop of a hook phase
    sy_opts,         \* the options of the running (or last) sync invocation
    sy_log,          \* history: what the invocation reported and applied, in order
    sy_prev,         \* history: how the invocation before this one ended
    st_last,         \* history: what the last status command did
    \* ---- state.py: the ledger file state.yaml as load_state finds it
    state_file,      \* "missing" | "empty" | "no_keys" | "mapping"
    lg_last          \* history: what the last operation that loads the ledger did

plan_vars == <<pl_declared, pl_installed, pl_orphans, pl_prune, pl_result, pl_again, pl_stage,
               pl_mode, mod_packages>>
hook_vars == <<hook_cfg, hooks_run, ok_runs, h_last>>
svc_vars  == <<mod_services, sys_enabled, tracked, s_last>>
dot_vars  == <<mod_dotfiles, fs, d_last, mod_tree, r_last>>
sync_vars == <<missing_modules, sy_pc, sy_i, sy_opts, sy_log, sy_prev, st_last>>
ledger_vars == <<state_file, lg_last>>
vars == <<plan_vars, hook_vars, svc_vars, dot_vars, sync_vars, ledger_vars>>

---------------------------------------------------------------------------
(* Generic helpers for Python lists, sets and strings.                     *)

Range(s) == {s[i] : i \in DOMAIN s}

SeqsUpTo(S, n) == UNION {[1..k -> S] : k \in 0..n}

\* [x for x in s if Keep(x)]
RECURSIVE FilterSeq(_, _)
FilterSeq(s, keep) ==
    IF s = <<>> THEN <<>>
    ELSE (IF Head(s) \in keep THEN <<Head(s)>> ELSE <<>>) \o FilterSeq(Tail(s), keep)

\* concatenation of ss[1], ss[2], ...
RECURSIVE Concat(_)
Concat(ss) == IF ss = <<>> THEN <<>> ELSE Head(ss) \o Concat(Tail(ss))

\* str.startswith
StartsWith(s, p) == Len(p) <= Len(s) /\ SubSeq(s, 1, Len(p)) = p

\* sub in str, for a one-character sub
Contains(s, c) == \E i \in DOMAIN s : s[i] = c

NoDup(s) == \A i, j \in DOMAIN s : i # j => s[i] # s[j]

\* index of the first occurrence of x in s (x occurs in s)
FirstIndex(s, x) == CHOOSE i \in DOMAIN s : s[i] = x /\ \A j \in 1..(i - 1) : s[j] # x

---------------------------------------------------------------------------
(* plan.py                                                                 *)

\* Package names, listed in lexicographic order.
PkgOrder == <<"base", "neovim", "ripgrep">>
Pkgs == Range(PkgOrder)

MaxDeclared == 3

\* sorted(S) for a set of package names
sorted(S) == FilterSeq(PkgOrder, S)

\* compute_package_plan with the filter of line 14 left out
compute_package_plan_unfiltered(declared, installed, orphans, prune_enabled) ==
    IF ~prune_enabled
    THEN <<declared, <<>>, <<>>>>
    ELSE <<declared, sorted(installed \ Range(declared)), sorted(orphans)>>

compute_package_plan(declared, installed, orphans, prune_enabled) ==
    LET declared_set == Range(declared)
        to_install == FilterSeq(declared, Pkgs \ installed)
    IN  IF ~prune_enabled
        THEN <<to_install, <<>>, <<>>>>
        ELSE <<to_install, sorted(installed \ declared_set), sorted(orphans)>>

\* cli.py sync, lines 423-425, with the sets given as sorted lists taken as
\* sets again: the removal list of every prune mode is the one of prune enabled
to_remove_unguarded(undeclared, orphans, prune_enabled) ==
    sorted(Range(undeclared) \cup Range(orphans))

\* cli.py sync, lines 423-425: the removal list handed to remove_packages
to_remove(undeclared, orphans, prune_enabled) ==
    IF prune_enabled THEN sorted(Range(undeclared) \cup Range(orphans)) ELSE <<>>

NoPlan == <<<<>>, <<>>, <<>>>>

\* host_config.get('auto_prune', True): the entry is "absent", "true" or "false"
get_auto_prune(entry) == IF entry = "absent" THEN TRUE ELSE entry = "true"

\* resolve_prune_mode with `prune_override or auto_prune` for line 28
resolve_prune_mode_truthy(auto_prune, prune_override) ==
    prune_override = "on" \/ auto_prune

\* resolve_prune_mode(host_config, prune_override), line 28; the override is
\* "none" (None), "on" (True) or "off" (False)
resolve_prune_mode(auto_prune, prune_override) ==
    IF prune_override = "none" THEN auto_prune ELSE prune_override = "on"

NoMode == [host |-> "absent", override |-> "none", resolved |-> FALSE]

\* No module declares a package
NoPackages == [m \in {<<"a">>, <<"a", "b">>} |-> <<>>]

InitPlanIdle ==
    /\ pl_declared = <<>>
    /\ pl_installed = {}
    /\ pl_orphans = {}
    /\ pl_prune = TRUE
    /\ pl_result = NoPlan
    /\ pl_again = NoPlan
    /\ pl_stage = "input"
    /\ pl_mode = NoMode
    /\ mod_packages = NoPackages

InitPlan ==
    /\ pl_declared \in SeqsUpTo(Pkgs, MaxDeclared)
    /\ pl_installed \in SUBSET Pkgs
    /\ pl_orphans \in SUBSET Pkgs
    /\ pl_prune \in BOOLEAN
    /\ pl_result = NoPlan
    /\ pl_again = NoPlan
    /\ pl_stage = "input"
    /\ pl_mode \in [host : {"absent", "true", "false"}, override : {"none", "on", "off"},
                     resolved : {FALSE}]
    /\ mod_packages = NoPackages

\* The caller resolves the prune mode it passes to compute_package_plan
\* (cli.py:326, 367).
ResolvePrune ==
    /\ pl_stage = "input" /\ ~pl_mode.resolved
    /\ pl_prune' = resolve_prune_mode(get_auto_prune(pl_mode.host), pl_mode.override)
    /\ pl_mode' = [pl_mode EXCEPT !.resolved = TRUE]
    /\ UNCHANGED <<pl_declared, pl_installed, pl_orphans, pl_result, pl_again, pl_stage>>
    /\ UNCHANGED mod_packages
    /\ UNCHANGED <<hook_vars, svc_vars, dot_vars, sync_vars, ledger_vars>>

\* One call of compute_package_plan on the gathered inputs.
ComputePlan ==
    /\ pl_stage = "input"
    /\ pl_result' = compute_package_plan(pl_declared, pl_installed, pl_orphans, pl_prune)
    /\ pl_stage' = "planned"
    /\ UNCHANGED <<pl_declared, pl_installed, pl_orphans, pl_prune, pl_again, pl_mode>>
    /\ UNCHANGED mod_packages
    /\ UNCHANGED <<hook_vars, svc_vars, dot_vars, sync_vars, ledger_vars>>

\* The packages of to_install get installed and the plan is computed again.
Replan ==
    /\ pl_stage = "planned"
    /\ pl_installed' = pl_installed \cup Range(pl_result[1])
    /\ pl_again' = compute_package_plan(pl_declared, pl_installed', pl_orphans, pl_prune)
    /\ pl_stage' = "replanned"
    /\ UNCHANGED <<pl_declared, pl_orphans, pl_prune, pl_result, pl_mode>>
    /\ UNCHANGED mod_packages
    /\ UNCHANGED <<hook_vars, svc_vars, dot_vars, sync_vars, ledger_vars>>

---------------------------------------------------------------------------
(* hooks.py, state.py: the hook ledger                                     *)

\* Owner names. The host sentinel is the literal 'host'; module names are
\* the host's modules in host-declared order ("ab" extends "a").
Host == <<"host">>
Modules == << <<"a">>, <<"a", "b">> >>
ModuleSet == Range(Modules)

\* get_host_hooks / get_module_hooks: the hook types each owner may declare.
\* Of the host's four types the two that sync runs are modelled; pre_update
\* and post_update go through the same run_host_hook from the update command.
HostHookTypes == {"pre_sync", "post_sync"}
ModuleHookTypes == {"pre", "post"}
HookIds == ({Host} \X HostHookTypes) \cup (ModuleSet \X ModuleHookTypes)

\* f'{module_name}:{hook_type}' and f'host:{hook_type}'
hook_key(id) == id[1] \o <<":">> \o <<id[2]>>
HookKeys == {hook_key(id) : id \in HookIds}

MaxHooks == 2
MaxOkRuns == 2

\* Hook declarations with at most MaxHooks configured hooks. "none": not
\* declared or script missing; "once": always=False; "always": always=True.
HookConfigs ==
    {c \in [HookIds -> {"none", "once", "always"}] :
        Cardinality({id \in HookIds : c[id] # "none"}) <= MaxHooks}

NoHookOp ==
    [op |-> "none", name |-> <<>>, id |-> <<Host, "pre_sync">>, dry |-> FALSE,
     reported |-> FALSE, executed |-> FALSE, ret |-> TRUE, before |-> {},
     rearmed |-> FALSE]

InitHooksIdle ==
    /\ hook_cfg = [id \in HookIds |-> "none"]
    /\ hooks_run = {}
    /\ ok_runs = [id \in HookIds |-> 0]
    /\ h_last = NoHookOp

\* load_state of a missing state file is {}: no hook has run.
InitHooks ==
    /\ hook_cfg \in HookConfigs
    /\ hooks_run = {}
    /\ ok_runs = [id \in HookIds |-> 0]
    /\ h_last = NoHookOp

\* should_run_hook without the always test of lines 85-86
should_run_hook_ledger_only(key, always) == key \notin hooks_run

should_run_hook(key, always) ==
    IF always THEN TRUE ELSE key \notin hooks_run

\* mark_hook_run that loses the new key
mark_hook_run_unsaved(key) == hooks_run

mark_hook_run(key) == hooks_run \cup {key}

\* A hook runner that marks the hook as run before looking at the exit
\* status of the script
RunHook_marks_failed(op, id, dry, ok) ==
    LET key == hook_key(id)
        always == hook_cfg[id] = "always"
        configured == hook_cfg[id] # "none"
        due == configured /\ should_run_hook(key, always)
        executed == due /\ ~dry
    IN  /\ executed /\ ok /\ ~always => ok_runs[id] < MaxOkRuns
        /\ ~executed => ok
        /\ hooks_run' = IF executed /\ ~always THEN mark_hook_run(key) ELSE hooks_run
        /\ ok_runs' = IF executed /\ ok /\ ~always
                      THEN [ok_runs EXCEPT ![id] = @ + 1] ELSE ok_runs
        /\ h_last' = [op |-> op, name |-> key, id |-> id, dry |-> dry, reported |-> due,
                      executed |-> executed, ret |-> (executed => ok), before |-> hooks_run,
                      rearmed |-> /\ h_last.op = "reset_hook"
                                  /\ key \in h_last.before \ hooks_run]
        /\ UNCHANGED hook_cfg

\* The common body of run_module_hook and run_host_hook. ok is the exit
\* status of the script (used only when the script is executed).
RunHook(op, id, dry, ok) ==
    LET key == hook_key(id)
        always == hook_cfg[id] = "always"
        configured == hook_cfg[id] # "none"
        due == configured /\ should_run_hook(key, always)
        executed == due /\ ~dry
    IN  /\ executed /\ ok /\ ~always => ok_runs[id] < MaxOkRuns
        /\ ~executed => ok
        /\ hooks_run' = IF executed /\ ok /\ ~always THEN mark_hook_run(key) ELSE hooks_run
        /\ ok_runs' = IF executed /\ ok /\ ~always
                      THEN [ok_runs EXCEPT ![id] = @ + 1] ELSE ok_runs
        /\ h_last' = [op |-> op, name |-> key, id |-> id, dry |-> dry, reported |-> due,
                      executed |-> executed, ret |-> (executed => ok), before |-> hooks_run,
                      rearmed |-> /\ h_last.op = "reset_hook"
                                  /\ key \in h_last.before \ hooks_run]
        /\ UNCHANGED hook_cfg

run_module_hook(module_name, hook_type, dry_run) ==
    \E ok \in BOOLEAN : RunHook("run_module_hook", <<module_name, hook_type>>, dry_run, ok)

run_host_hook(hook_type, dry_run) ==
    \E ok \in BOOLEAN : RunHook("run_host_hook", <<Host, hook_type>>, dry_run, ok)

\* The names reset_hook is called with: a key 'owner:type' or an owner.
ResetNames == HookKeys \cup {Host} \cup ModuleSet

\* Whether a reset with this name is a reset for the hook id: its key or its owner.
ResetNamesHook(name, id) == name = hook_key(id) \/ name = id[1]

\* reset_hook matching the owner by k.startswith(name), without the ':'
reset_hook_ledger_bare_prefix(name) ==
    IF Contains(name, ":")
    THEN hooks_run \ {name}
    ELSE hooks_run \ {k \in hooks_run : StartsWith(k, name)}

reset_hook_ledger(name) ==
    IF Contains(name, ":")
    THEN hooks_run \ {name}
    ELSE hooks_run \ {k \in hooks_run : StartsWith(k, name \o <<":">>)}

reset_hook(name) ==
    /\ hooks_run' = reset_hook_ledger(name)
    /\ ok_runs' = [id \in HookIds |-> IF ResetNamesHook(name, id) THEN 0 ELSE ok_runs[id]]
    /\ h_last' = [NoHookOp EXCEPT !.op = "reset_hook", !.name = name, !.before = hooks_run]
    /\ UNCHANGED hook_cfg

\* target, hook_type = name.split(':', 1)
split_hook_name(name) ==
    LET i == FirstIndex(name, ":")
    IN  << SubSeq(name, 1, i - 1), SubSeq(name, i + 1, Len(name)) >>

\* The hook a name 'owner:type' stands for in get_host_hooks() or
\* get_module_hooks(target), if it is configured there
named_hooks(name) ==
    LET parts == split_hook_name(name)
    IN  {id \in HookIds : /\ id[1] = parts[1] /\ <<id[2]>> = parts[2]
                           /\ hook_cfg[id] # "none"}

\* force_run_hook that consults should_run_hook like a sync run
force_run_hook_tracked(name, ok) ==
    LET found == Contains(name, ":") /\ named_hooks(name) # {}
        due == found /\ \E id \in named_hooks(name) :
                           should_run_hook(name, hook_cfg[id] = "always")
    IN  /\ ~due => ok
        /\ h_last' = [NoHookOp EXCEPT !.op = "force_run_hook", !.name = name,
                                       !.executed = due, !.ret = due /\ ok,
                                       !.before = hooks_run]
        /\ UNCHANGED <<hook_cfg, hooks_run, ok_runs>>

\* force_run_hook(name). ok is the exit status of the script.
force_run_hook(name, ok) ==
    LET found == Contains(name, ":") /\ named_hooks(name) # {}
    IN  /\ ~found => ok
        /\ h_last' = [NoHookOp EXCEPT !.op = "force_run_hook", !.name = name,
                                       !.executed = found, !.ret = found /\ ok,
                                       !.before = hooks_run]
        /\ UNCHANGED <<hook_cfg, hooks_run, ok_runs>>

\* The user adds always: true to a declared hook.
UserSetsAlways(id) ==
    /\ hook_cfg[id] = "once"
    /\ hook_cfg' = [hook_cfg EXCEPT ![id] = "always"]
    /\ ok_runs' = [ok_runs EXCEPT ![id] = 0]
    /\ h_last' = NoHookOp
    /\ UNCHANGED hooks_run

HookFrame == UNCHANGED <<plan_vars, svc_vars, dot_vars, sync_vars, ledger_vars>>

RunModuleHook ==
    /\ \E m \in ModuleSet, t \in ModuleHookTypes, dry \in BOOLEAN : run_module_hook(m, t, dry)
    /\ HookFrame

RunHostHook ==
    /\ \E t \in HostHookTypes, dry \in BOOLEAN : run_host_hook(t, dry)
    /\ HookFrame

ResetHook ==
    /\ \E name \in ResetNames : reset_hook(name)
    /\ HookFrame

EditHook ==
    /\ \E id \in HookIds : UserSetsAlways(id)
    /\ HookFrame

ForceRunHook ==
    /\ \E name \in ResetNames, ok \in BOOLEAN : force_run_hook(name, ok)
    /\ HookFrame

---------------------------------------------------------------------------
(* services.py: service reconciliation and the tracked-services ledger     *)

\* Unit names (already normalized by parse_service_config) and the
\* (name, user) identities the model ranges over.
ServiceIds == {<< <<"foo.service">>, FALSE >>, << <<"foo.service">>, TRUE >>,
               << <<"bar.service">>, FALSE >>}

\* class Service
Service(name, user, enabled) == [name |-> name, user |-> user, enabled |-> enabled]
Services == {Service(i[1], i[2], e) : i \in ServiceIds, e \in BOOLEAN}

MaxServices == 2

\* The declarations of all modules together hold at most MaxServices services.
ServiceConfigs ==
    {c \in [ModuleSet -> SeqsUpTo(Services, MaxServices)] :
        Len(c[Modules[1]]) + Len(c[Modules[2]]) <= MaxServices}

\* str(bool)
BoolStr(b) == IF b THEN "True" ELSE "False"

\* f'{s.name}|{s.user}'
service_key(name, user) == name \o <<"|">> \o <<BoolStr(user)>>

\* name, user_str = key.split('|', 1); user = user_str == 'True'
parse_service_key(key) ==
    LET i == FirstIndex(key, "|")
    IN  << SubSeq(key, 1, i - 1), SubSeq(key, i + 1, Len(key)) = <<"True">> >>

\* Ledger keys in the order yaml.dump writes them (sorted), which is the
\* order the loaded dict is iterated in.
TrackedKeyOrder ==
    << service_key(<<"bar.service">>, FALSE),
       service_key(<<"foo.service">>, FALSE),
       service_key(<<"foo.service">>, TRUE) >>

get_module_services(module_name) == mod_services[module_name]

\* Unique by name alone: the scope is left out of the key
unique_services_by_name(all_services, seen) ==
    LET firsts == {i \in DOMAIN all_services :
                      \A j \in 1..(i - 1) : all_services[j].name # all_services[i].name}
    IN  [k \in 1..Cardinality(firsts) |->
            all_services[CHOOSE i \in firsts : Cardinality({j \in firsts : j < i}) = k - 1]]

\* Unique by (name, user), first occurrence kept
RECURSIVE unique_services(_, _)
unique_services(all_services, seen) ==
    IF all_services = <<>> THEN <<>>
    ELSE LET service == Head(all_services)
             key == <<service.name, service.user>>
         IN  IF key \in seen
             THEN unique_services(Tail(all_services), seen)
             ELSE <<service>> \o unique_services(Tail(all_services), seen \cup {key})

get_declared_services ==
    unique_services(
        Concat([i \in DOMAIN Modules |-> get_module_services(Modules[i])]), {})

is_service_enabled(name, user) == <<name, user>> \in sys_enabled

\* get_tracked_services taking every known unit for one the tool enabled
get_tracked_services_any == Range(TrackedKeyOrder)

get_tracked_services == tracked

\* save_tracked_services without the "if s.enabled" of line 121
save_tracked_services_all(services) ==
    {service_key(services[i].name, services[i].user) : i \in DOMAIN services}

\* state['services'] = {f'{s.name}|{s.user}': True for s in services if s.enabled}
save_tracked_services(services) ==
    {service_key(services[i].name, services[i].user) :
        i \in {j \in DOMAIN services : services[j].enabled}}

\* sync_services, lines 130-153: the two queues
declared_map(declared) ==
    {service_key(declared[i].name, declared[i].user) :
        i \in {j \in DOMAIN declared : declared[j].enabled}}

\* to_enable without the probe of lines 138-140
to_enable_queue_unprobed(declared) ==
    FilterSeq(declared, {s \in Range(declared) : s.enabled})

to_enable_queue(declared) ==
    FilterSeq(declared,
        {s \in Range(declared) : s.enabled /\ ~is_service_enabled(s.name, s.user)})

RECURSIVE tracked_to_disable(_, _)
tracked_to_disable(keys, dmap) ==
    IF keys = <<>> THEN <<>>
    ELSE LET key == Head(keys)
             nu == parse_service_key(key)
             rest == tracked_to_disable(Tail(keys), dmap)
         IN  IF key \notin dmap /\ is_service_enabled(nu[1], nu[2])
             THEN <<Service(nu[1], nu[2], FALSE)>> \o rest
             ELSE rest

\* to_disable without the loop over the tracked ledger (lines 143-148)
to_disable_queue_declared_only(declared) ==
    FilterSeq(declared,
        {s \in Range(declared) : ~s.enabled /\ is_service_enabled(s.name, s.user)})

\* to_disable without the probe of line 151 for the declared services
to_disable_queue_unprobed(declared) ==
    tracked_to_disable(FilterSeq(TrackedKeyOrder, get_tracked_services), declared_map(declared))
    \o FilterSeq(declared, {s \in Range(declared) : ~s.enabled})

to_disable_queue(declared) ==
    tracked_to_disable(FilterSeq(TrackedKeyOrder, get_tracked_services), declared_map(declared))
    \o FilterSeq(declared,
        {s \in Range(declared) : ~s.enabled /\ is_service_enabled(s.name, s.user)})

\* systemd when the loops go on after the failed action (the one after the
\* first n) instead of returning
apply_actions_past_failure(enabled, to_enable, to_disable, n) ==
    (enabled \cup {<<to_enable[i].name, to_enable[i].user>> :
                      i \in {j \in DOMAIN to_enable : j # n + 1}})
    \ {<<to_disable[i].name, to_disable[i].user>> :
          i \in {j \in DOMAIN to_disable : Len(to_enable) + j # n + 1}}

\* systemd after the first n queued actions succeeded: enables first, then disables
RECURSIVE apply_actions(_, _, _, _)
apply_actions(enabled, to_enable, to_disable, n) ==
    IF n = 0 THEN enabled
    ELSE IF to_enable # <<>>
         THEN apply_actions(enabled \cup {<<Head(to_enable).name, Head(to_enable).user>>},
                            Tail(to_enable), to_disable, n - 1)
         ELSE apply_actions(enabled \ {<<Head(to_disable).name, Head(to_disable).user>>},
                            to_enable, Tail(to_disable), n - 1)

\* The ledger after a real run that queued something: rewritten when every
\* queued action succeeded (line 184), left alone when one failed.
ledger_after_batch(declared, all_ok) ==
    IF all_ok THEN save_tracked_services(declared) ELSE tracked

NoSvcOp ==
    [op |-> "none", dry |-> FALSE, to_enable |-> <<>>, to_disable |-> <<>>,
     done |-> 0, ret |-> TRUE]

\* The queues of one sync_services call, computed once (lines 127-153)
service_queues ==
    LET declared == get_declared_services
    IN  [declared |-> declared,
         to_enable |-> to_enable_queue(declared),
         to_disable |-> to_disable_queue(declared)]

\* sync_services(dry_run). n is the number of queued actions that succeed
\* before the first one fails (all of them when n is the number queued).
sync_services(q, dry_run, n) ==
    LET total == Len(q.to_enable) + Len(q.to_disable)
        applies == total > 0 /\ ~dry_run
    IN  /\ sys_enabled' = apply_actions(sys_enabled, q.to_enable, q.to_disable, n)
        /\ tracked' = IF applies THEN ledger_after_batch(q.declared, n = total) ELSE tracked
        /\ s_last' = [op |-> "sync_services", dry |-> dry_run,
                      to_enable |-> q.to_enable, to_disable |-> q.to_disable,
                      done |-> n, ret |-> (applies => n = total)]
        /\ UNCHANGED mod_services

\* Actions attempted whether or not the call is a dry run
Outcomes_dry_run_applies(q, dry_run) ==
    0..(Len(q.to_enable) + Len(q.to_disable))

\* The numbers of actions that may succeed: none is attempted in a dry run
\* or when nothing is queued.
Outcomes(q, dry_run) ==
    IF dry_run THEN {0} ELSE 0..(Len(q.to_enable) + Len(q.to_disable))

ServiceFrame == UNCHANGED <<plan_vars, hook_vars, dot_vars, sync_vars, ledger_vars>>

SyncServices ==
    /\ LET q == service_queues
       IN  \E dry \in BOOLEAN : \E n \in Outcomes(q, dry) : sync_services(q, dry, n)
    /\ ServiceFrame

\* The user edits a module: appends a service declaration or deletes one.
UserDeclaresService ==
    \E m \in ModuleSet, s \in Services :
        /\ Len(mod_services[Modules[1]]) + Len(mod_services[Modules[2]]) < MaxServices
        /\ mod_services' = [mod_services EXCEPT ![m] = Append(@, s)]
        /\ s_last' = NoSvcOp
        /\ UNCHANGED <<sys_enabled, tracked>>
        /\ ServiceFrame

UserDeletesService ==
    \E m \in ModuleSet : \E i \in DOMAIN mod_services[m] :
        /\ mod_services' = [mod_services EXCEPT
                              ![m] = SubSeq(@, 1, i - 1) \o SubSeq(@, i + 1, Len(@))]
        /\ s_last' = NoSvcOp
        /\ UNCHANGED <<sys_enabled, tracked>>
        /\ ServiceFrame

\* systemctl enable / disable run by the user outside the tool
UserSystemctl ==
    \E id \in ServiceIds :
        /\ sys_enabled' = IF id \in sys_enabled THEN sys_enabled \ {id} ELSE sys_enabled \cup {id}
        /\ s_last' = NoSvcOp
        /\ UNCHANGED <<mod_services, tracked>>
        /\ ServiceFrame

InitServicesIdle ==
    /\ mod_services = [m \in ModuleSet |-> <<>>]
    /\ sys_enabled = {}
    /\ tracked = {}
    /\ s_last = NoSvcOp

\* A fresh ledger; any declarations; any services already enabled by hand.
InitServices ==
    /\ mod_services \in ServiceConfigs
    /\ sys_enabled \in SUBSET ServiceIds
    /\ tracked = {}
    /\ s_last = NoSvcOp

---------------------------------------------------------------------------
(* dotfiles.py: conflict detection and symlink convergence                 *)

\* Target paths the modules may declare. One of them is the sibling backup
\* path of another.
T1 == <<"t1">>
T2 == <<"t2">>

\* target.with_suffix(target.suffix + '.bak')
backup_path(target) == target \o <<".bak">>

Targets == {T1, T2, backup_path(T1)}
Paths == Targets \cup {backup_path(t) : t \in Targets}

\* Source paths <module>/dotfiles/<name>, as (module, name)
Sources == {<< <<"a">>, "x" >>, << <<"a">>, "y" >>, << <<"a", "b">>, "x" >>}
Elsewhere == <<"elsewhere">>

\* File-system entries: nothing, a regular file or directory holding some
\* user content, or a symlink.
Absent == [kind |-> "absent"]
File(data) == [kind |-> "file", data |-> data]
Link(to) == [kind |-> "link", to |-> to]

\* A resolved link {source, target, module}
DotLink(source, target) == [source |-> source, target |-> target, module |-> source[1]]
DotLinks == {DotLink(s, t) : s \in Sources, t \in Targets}

MaxLinks == 3

\* Resolved links per module: a module's links have distinct sources (the
\* keys of a mapping, the entries of a directory) and belong to the module.
ModuleLinkSeqs(m) ==
    {q \in SeqsUpTo({df \in DotLinks : df.module = m}, MaxLinks) :
        \A i, j \in DOMAIN q : i # j => q[i].source # q[j].source}

DotConfigs ==
    {c \in [ModuleSet -> UNION {ModuleLinkSeqs(m) : m \in ModuleSet}] :
        /\ \A m \in ModuleSet : c[m] \in ModuleLinkSeqs(m)
        /\ Len(c[Modules[1]]) + Len(c[Modules[2]]) <= MaxLinks}

\* ---- get_module_dotfiles: from a module's declaration to its links

\* Entry names under dotfiles/ and what an entry is
EntryNames == {"x", "y"}
EntryKinds == {"absent", "file", "dir"}

\* The dotfiles/ directory of a module: whether it exists, and its entries
Tree(exists_, entries) == [exists |-> exists_, entries |-> entries]
NoTree == Tree(FALSE, [n \in EntryNames |-> "absent"])
Trees == {NoTree} \cup {Tree(TRUE, e) : e \in [EntryNames -> EntryKinds]}

\* A key of a dotfiles mapping with its target string: the key is an entry
\* name, with a trailing slash or not
MapItem(key, target) == [key |-> key, target |-> target]
MapKeys == {<<n>> : n \in EntryNames} \cup {<<n, "/">> : n \in EntryNames}
MapItems == {MapItem(k, t) : k \in MapKeys, t \in {T1, T2}}

MaxKeys == 2

\* module.get('dotfiles'): None, False, True, a dict (its items in order;
\* the keys of a dict are distinct) or something else
Declaration(kind, items) == [kind |-> kind, items |-> items]
Declarations ==
    {Declaration(k, <<>>) : k \in {"absent", "false", "true", "invalid"}}
    \cup {Declaration("mapping", q) :
            q \in {q \in SeqsUpTo(MapItems, MaxKeys) :
                     \A i, j \in DOMAIN q : i # j => q[i].key # q[j].key}}

NoDeclaration == [decl |-> Declaration("absent", <<>>), dir |-> NoTree]

\* source_key.endswith('/')
ends_with_slash(key) == key # <<>> /\ key[Len(key)] = "/"

\* source_key.rstrip('/')
RECURSIVE rstrip_slash(_)
rstrip_slash(key) ==
    IF ends_with_slash(key) THEN rstrip_slash(SubSeq(key, 1, Len(key) - 1)) ELSE key

\* home / '.config' / item.name
config_target(name) == <<".config", name>>

\* The entries of dotfiles/ in the orders iterdir() may yield them
IterDirOrders(dir) ==
    LET present == {n \in EntryNames : dir.entries[n] # "absent"}
    IN  {q \in [1..Cardinality(present) -> present] : NoDup(q)}

\* Lines 56-62 without the test of the trailing slash
keeps_key_any_kind(dir, key) ==
    Len(rstrip_slash(key)) = 1 /\ dir.entries[rstrip_slash(key)[1]] # "absent"

\* Lines 56-62: the key's source exists, and is a directory when the key
\* has a trailing slash
keeps_key(dir, key) ==
    LET source_name == rstrip_slash(key)
        kind == dir.entries[source_name[1]]
    IN  /\ Len(source_name) = 1
        /\ kind # "absent"
        /\ ends_with_slash(key) => kind = "dir"

\* The loop of lines 49-69 over the items of the mapping
RECURSIVE mapping_links(_, _, _)
mapping_links(module_name, dir, items) ==
    IF items = <<>> THEN <<>>
    ELSE LET item == Head(items)
             rest == mapping_links(module_name, dir, Tail(items))
         IN  IF keeps_key(dir, item.key)
             THEN <<DotLink(<<module_name, rstrip_slash(item.key)[1]>>, item.target)>> \o rest
             ELSE rest

\* get_module_dotfiles for a module that loads; order is the order in which
\* iterdir() yields the entries
resolve_module_dotfiles(module_name, tree, order) ==
    CASE tree.decl.kind = "absent" -> <<>>
      [] tree.decl.kind = "false" -> <<>>
      [] tree.decl.kind \notin {"absent", "false"} /\ ~tree.dir.exists -> <<>>
      [] tree.decl.kind = "true" /\ tree.dir.exists ->
            [i \in DOMAIN order |->
                DotLink(<<module_name, order[i]>>, config_target(order[i]))]
      [] tree.decl.kind = "invalid" /\ tree.dir.exists -> <<>>
      [] tree.decl.kind = "mapping" /\ tree.dir.exists ->
            mapping_links(module_name, tree.dir, tree.decl.items)

NoResolveOp == [op |-> "none", module |-> <<>>]

\* One call of get_module_dotfiles for a module of the host
GetModuleDotfiles ==
    \E m \in ModuleSet : \E order \in IterDirOrders(mod_tree[m].dir) :
        /\ mod_dotfiles' = [mod_dotfiles EXCEPT ![m] = resolve_module_dotfiles(m, mod_tree[m], order)]
        /\ r_last' = [op |-> "get_module_dotfiles", module |-> m]
        /\ UNCHANGED <<fs, d_last, mod_tree>>
        /\ UNCHANGED <<plan_vars, hook_vars, svc_vars, sync_vars, ledger_vars>>

\* The user edits the module: changes what an entry of dotfiles/ is
UserEditsEntry ==
    \E m \in ModuleSet, n \in EntryNames, k \in EntryKinds :
        /\ mod_tree[m].dir.exists /\ mod_tree[m].dir.entries[n] # k
        /\ mod_tree' = [mod_tree EXCEPT ![m].dir.entries[n] = k]
        /\ r_last' = NoResolveOp
        /\ UNCHANGED <<mod_dotfiles, fs, d_last>>
        /\ UNCHANGED <<plan_vars, hook_vars, svc_vars, sync_vars, ledger_vars>>

get_module_dotfiles(module_name) == mod_dotfiles[module_name]

get_all_dotfiles ==
    Concat([i \in DOMAIN Modules |-> get_module_dotfiles(Modules[i])])

\* check_conflicts: targets maps each target seen so far to its first module
RECURSIVE conflicts_loop(_, _)
conflicts_loop(dotfiles, targets) ==
    IF dotfiles = <<>> THEN <<>>
    ELSE LET df == Head(dotfiles)
         IN  IF df.target \in DOMAIN targets
             THEN <<[target |-> df.target, modules |-> <<targets[df.target], df.module>>]>>
                  \o conflicts_loop(Tail(dotfiles), targets)
             ELSE conflicts_loop(Tail(dotfiles), targets @@ (df.target :> df.module))

\* check_conflicts grouping the links by source instead of target
check_conflicts_by_source(dotfiles) ==
    conflicts_loop([i \in DOMAIN dotfiles |-> [dotfiles[i] EXCEPT !.target = dotfiles[i].source]],
                   <<>>)

check_conflicts(dotfiles) == conflicts_loop(dotfiles, <<>>)

is_symlink(f, path) == f[path].kind = "link"

\* target.exists(): follows symlinks; the sources exist, a link elsewhere may dangle
exists(f, path) == f[path].kind = "file" \/ (f[path].kind = "link" /\ f[path].to \in Sources)

\* target.is_symlink() and target.resolve() == source.resolve()
is_synced(f, df) == is_symlink(f, df.target) /\ f[df.target].to = df.source

\* target.rename(backup): replaces whatever is at backup
rename(f, from, to) == [f EXCEPT ![to] = f[from], ![from] = Absent]

\* Lines 154-163 for one link that is not in sync: the file system after
\* it, and the number of mutations (rename, unlink, symlink) it took.
converge_link(f, df) ==
    LET target == df.target
        backed == exists(f, target) /\ ~is_symlink(f, target)
        f1 == IF backed THEN rename(f, target, backup_path(target)) ELSE f
        unlinked == is_symlink(f1, target)
        f2 == IF unlinked THEN [f1 EXCEPT ![target] = Absent] ELSE f1
        f3 == [f2 EXCEPT ![target] = Link(df.source)]
    IN  [fs |-> f3, n |-> 1 + (IF backed THEN 1 ELSE 0) + (IF unlinked THEN 1 ELSE 0)]

\* What lines 154-164 print and do for one link that is not in sync, in the
\* order of the statements: the backup warning, the rename, the unlink, the
\* symlink, the "added" line.
Step(act, path) == [act |-> act, path |-> path]

link_steps(f, df) ==
    LET target == df.target
        backed == exists(f, target) /\ ~is_symlink(f, target)
        f1 == IF backed THEN rename(f, target, backup_path(target)) ELSE f
    IN  (IF backed THEN <<Step("warning", target), Step("rename", target)>> ELSE <<>>)
        \o (IF is_symlink(f1, target) THEN <<Step("unlink", target)>> ELSE <<>>)
        \o <<Step("symlink", target), Step("added", target)>>

\* The loop of lines 143-164: file system, mutation count and reported links
RECURSIVE sync_loop(_, _, _)
sync_loop(dotfiles, dry_run, acc) ==
    IF dotfiles = <<>> THEN acc
    ELSE LET df == Head(dotfiles)
         IN  IF is_synced(acc.fs, df)
             THEN sync_loop(Tail(dotfiles), dry_run, acc)
             ELSE IF dry_run
             THEN sync_loop(Tail(dotfiles), dry_run,
                            [acc EXCEPT !.reported = Append(@, df),
                                        !.steps = Append(@, Step("added", df.target))])
             ELSE LET r == converge_link(acc.fs, df)
                  IN  sync_loop(Tail(dotfiles), dry_run,
                                [fs |-> r.fs, n |-> acc.n + r.n,
                                 reported |-> Append(acc.reported, df),
                                 steps |-> acc.steps \o link_steps(acc.fs, df)])

\* What sync_dotfiles(dry_run) returns and does, from file system f
sync_dotfiles_result(f, dry_run) ==
    LET dotfiles == get_all_dotfiles
        conflicts == check_conflicts(dotfiles)
        start == [fs |-> f, n |-> 0, reported |-> <<>>, steps |-> <<>>]
    IN  IF dotfiles = <<>> THEN [ret |-> TRUE, conflicts |-> <<>>, out |-> start]
        ELSE IF conflicts # <<>> THEN [ret |-> FALSE, conflicts |-> conflicts, out |-> start]
        ELSE [ret |-> TRUE, conflicts |-> <<>>, out |-> sync_loop(dotfiles, dry_run, start)]

NoDotOp ==
    [op |-> "none", dry |-> FALSE, ret |-> TRUE, conflicts |-> <<>>,
     mutations |-> 0, reported |-> <<>>, steps |-> <<>>, after_sync |-> FALSE]

\* Whether, after the operation d, a real sync has succeeded with no change
\* from outside since.
Converged(d) == d.op = "sync_dotfiles" /\ ((d.ret /\ ~d.dry) \/ d.after_sync)

\* d_last.after_sync: the call started from a converged state
sync_dotfiles(dry_run) ==
    LET r == sync_dotfiles_result(fs, dry_run)
    IN  /\ fs' = r.out.fs
        /\ d_last' = [op |-> "sync_dotfiles", dry |-> dry_run,
                      ret |-> r.ret, conflicts |-> r.conflicts,
                      mutations |-> r.out.n, reported |-> r.out.reported,
                      steps |-> r.out.steps,
                      after_sync |-> Converged(d_last)]
        /\ UNCHANGED <<mod_dotfiles, mod_tree, r_last>>

DotFrame == UNCHANGED <<plan_vars, hook_vars, svc_vars, sync_vars, ledger_vars>>

SyncDotfiles ==
    /\ \E dry \in BOOLEAN : sync_dotfiles(dry)
    /\ DotFrame

\* Something outside the tool puts a regular file at a target path.
UserWritesFile ==
    \E p \in Targets :
        /\ fs[p] # File(<<p, "new">>)
        /\ fs' = [fs EXCEPT ![p] = File(<<p, "new">>)]
        /\ d_last' = NoDotOp
        /\ UNCHANGED <<mod_dotfiles, mod_tree, r_last>>
        /\ DotFrame

InitTreeIdle ==
    /\ mod_tree = [m \in {<<"a">>, <<"a", "b">>} |-> NoDeclaration]
    /\ r_last = NoResolveOp

\* Any declaration and any dotfiles/ directory in the first module, a
\* second module that declares nothing
InitResolve ==
    /\ mod_tree \in {[m \in ModuleSet |-> IF m = Modules[1] THEN t ELSE NoDeclaration] :
                       t \in [decl : Declarations, dir : Trees]}
    /\ r_last = NoResolveOp
    /\ mod_dotfiles = [m \in ModuleSet |-> <<>>]
    /\ fs = [p \in Paths |-> Absent]
    /\ d_last = NoDotOp

InitDotfilesIdle ==
    /\ mod_dotfiles = [m \in ModuleSet |-> <<>>]
    /\ InitTreeIdle
    /\ fs = [p \in Paths |-> Absent]
    /\ d_last = NoDotOp

\* Any declarations; at each target nothing, the user's own file or a
\* symlink of the user's; no backups yet.
InitDotfiles ==
    /\ mod_dotfiles \in DotConfigs
    /\ InitTreeIdle
    /\ fs \in {f \in [Paths -> {Absent, Link(Elsewhere)} \cup {File(<<p, "old">>) : p \in Paths}] :
                 \A p \in Paths :
                    /\ f[p].kind = "file" => f[p].data = <<p, "old">>
                    /\ p \notin Targets => f[p] = Absent}
    /\ d_last = NoDotOp

---------------------------------------------------------------------------
(* cli.py: the sync command (a pipeline of phases) and the status command  *)

\* The options of sync: --dry-run, --no-hooks, --no-dotfiles, --no-services
\* (invocations that skip at most one kind of phase)
SyncOptions ==
    {o \in [dry : BOOLEAN, no_hooks : BOOLEAN, no_dotfiles : BOOLEAN, no_services : BOOLEAN] :
        Cardinality({f \in {"no_hooks", "no_dotfiles", "no_services"} : o[f]}) <= 1}

NoOptions == [dry |-> FALSE, no_hooks |-> FALSE, no_dotfiles |-> FALSE, no_services |-> FALSE]

NoStatus == [op |-> "none", warned |-> FALSE, completed |-> FALSE, counts |-> <<0, 0, 0>>]

NoPrev == [pc |-> "idle", opts |-> NoOptions, log |-> <<>>]

\* The ledger file where its form is not looked at: a mapping that holds
\* what hooks_run and tracked say.
NoLedgerOp == [op |-> "none", file |-> "mapping", loaded |-> FALSE, raised |-> FALSE]

InitLedgerIdle ==
    /\ state_file = "mapping"
    /\ lg_last = NoLedgerOp

InitSyncIdle ==
    /\ missing_modules = {}
    /\ sy_pc = "idle"
    /\ sy_i = 0
    /\ sy_opts = NoOptions
    /\ sy_log = <<>>
    /\ sy_prev = NoPrev
    /\ st_last = NoStatus

\* load_module(name) raises FileNotFoundError when the module has no module.yaml
load_module_raises(name) == name \in missing_modules

\* A validation that finds every module
validate_modules_none == <<>>

\* validate_modules: the host's modules that do not exist, in host order
validate_modules == FilterSeq(Modules, missing_modules)

\* get_declared_packages: stable de-dupe of the modules' packages
RECURSIVE unique_packages(_, _)
unique_packages(packages, seen) ==
    IF packages = <<>> THEN <<>>
    ELSE IF Head(packages) \in seen
         THEN unique_packages(Tail(packages), seen)
         ELSE <<Head(packages)>> \o unique_packages(Tail(packages), seen \cup {Head(packages)})

\* module.get('packages', []) of a module that loads
get_module_packages(module_name) == mod_packages[module_name]

\* Lines 70-75 with the except clause left out: a missing module's
\* packages are taken from what its entry last held
collect_packages_unguarded ==
    Concat([i \in DOMAIN Modules |-> get_module_packages(Modules[i])])

\* Lines 70-75: the packages of the host's modules in host order; a module
\* whose load raises FileNotFoundError adds nothing
collect_packages ==
    Concat([i \in DOMAIN Modules |->
               IF load_module_raises(Modules[i]) THEN <<>>
               ELSE get_module_packages(Modules[i])])

get_declared_packages == unique_packages(collect_packages, {})

\* The plan object sync and status read (plan.to_install, plan.undeclared,
\* plan.orphans), computed without the prune mode.
PackagePlan(declared, installed_explicit, orphans) ==
    [to_install |-> FilterSeq(declared, Pkgs \ installed_explicit),
     undeclared |-> sorted(installed_explicit \ Range(declared)),
     orphans |-> sorted(orphans)]

\* The phases of sync in the order of the code
PhaseOrder == <<"pre", "packages", "dotfiles", "services", "post">>

\* if not no_hooks / if not no_dotfiles / if not no_services
phase_enabled(phase, opts) ==
    CASE phase \in {"pre", "post"} -> ~opts.no_hooks
      [] phase = "dotfiles" -> ~opts.no_dotfiles
      [] phase = "services" -> ~opts.no_services
      [] OTHER -> TRUE

\* The first phase at or after position i that the options do not skip
RECURSIVE phase_from(_, _, _)
phase_from(order, i, opts) ==
    IF i > Len(order) THEN "done"
    ELSE IF phase_enabled(order[i], opts) THEN order[i]
    ELSE phase_from(order, i + 1, opts)

\* sync with the service phase moved in front of the package phase
next_phase_services_first(phase, opts) ==
    LET order == <<"pre", "services", "packages", "dotfiles", "post">>
    IN  phase_from(order, IF phase = "start" THEN 1 ELSE FirstIndex(order, phase) + 1, opts)

\* The phase sync goes to when phase is over ("start": validation is over)
next_phase(phase, opts) ==
    phase_from(PhaseOrder, IF phase = "start" THEN 1 ELSE FirstIndex(PhaseOrder, phase) + 1, opts)

\* The pre phase runs the host hook (position 0), then the modules' hooks;
\* the post phase runs the modules' hooks, then the host hook.
first_position(phase) == IF phase = "pre" THEN 0 ELSE 1
last_position(phase) == IF phase = "post" THEN Len(Modules) + 1 ELSE Len(Modules)

hook_at(phase, i) ==
    IF phase = "pre"
    THEN (IF i = 0 THEN <<Host, "pre_sync">> ELSE <<Modules[i], "pre">>)
    ELSE (IF i = Len(Modules) + 1 THEN <<Host, "post_sync">> ELSE <<Modules[i], "post">>)

Event(phase, kind, what, applied) ==
    [phase |-> phase, kind |-> kind, what |-> what, applied |-> applied]

Finished(phase) == Event(phase, "finished", <<>>, FALSE)

Running == sy_pc \in Range(PhaseOrder)

\* The invocation leaves the phase: the phase is over, the next one starts.
leave_phase(phase, events) ==
    /\ sy_pc' = next_phase(phase, sy_opts)
    /\ sy_i' = first_position(sy_pc')
    /\ sy_log' = sy_log \o events \o <<Finished(phase)>>

\* A failure that is reported and then passed over
exit_sync_goes_on(events) == leave_phase(sy_pc, events)

\* raise typer.Exit in the middle of a phase
exit_sync(events) ==
    /\ sy_pc' = "exited"
    /\ sy_i' = sy_i
    /\ sy_log' = sy_log \o events

\* The invocations looked at: one with any options, and after a dry run
\* that came to its end the same invocation without --dry-run.
Invocations ==
    IF sy_pc = "idle" THEN SyncOptions
    ELSE IF sy_pc = "done" /\ sy_opts.dry THEN {[sy_opts EXCEPT !.dry = FALSE]}
    ELSE {}

\* sync, lines 357-402: a new invocation validates the modules and makes
\* sure of the AUR helper. boot_ok: the helper is there or was bootstrapped.
SyncStart ==
    \E opts \in Invocations, boot_ok \in BOOLEAN :
        /\ opts.dry \/ validate_modules # <<>> => boot_ok
        /\ sy_opts' = opts
        /\ sy_prev' = [pc |-> sy_pc, opts |-> sy_opts, log |-> sy_log]
        /\ sy_log' = <<>>
        /\ sy_pc' = IF validate_modules # <<>> \/ ~boot_ok THEN "exited"
                    ELSE next_phase("start", opts)
        /\ sy_i' = first_position(sy_pc')
        /\ st_last' = NoStatus
        /\ UNCHANGED <<plan_vars, hook_vars, svc_vars, dot_vars, missing_modules, ledger_vars>>

\* A hook phase that goes on to the next hook whatever the hook returned
sync_hook_keeps_going(phase) ==
    LET id == hook_at(phase, sy_i)
        op == IF id[1] = Host THEN "run_host_hook" ELSE "run_module_hook"
    IN  /\ sy_pc = phase
        /\ \E ok \in BOOLEAN : RunHook(op, id, sy_opts.dry, ok)
        /\ LET events == IF h_last'.reported
                         THEN <<Event(phase, "hook", hook_key(id), h_last'.executed)>>
                         ELSE <<>>
           IN  IF sy_i < last_position(phase)
               THEN /\ sy_pc' = sy_pc
                    /\ sy_i' = sy_i + 1
                    /\ sy_log' = sy_log \o events
               ELSE leave_phase(phase, events)
        /\ UNCHANGED <<plan_vars, svc_vars, dot_vars>>
        /\ UNCHANGED <<missing_modules, sy_opts, sy_prev, st_last, ledger_vars>>

\* One hook of a hook phase: lines 406-412 (pre) and 462-468 (post)
sync_hook(phase) ==
    LET id == hook_at(phase, sy_i)
        op == IF id[1] = Host THEN "run_host_hook" ELSE "run_module_hook"
    IN  /\ sy_pc = phase
        /\ \E ok \in BOOLEAN : RunHook(op, id, sy_opts.dry, ok)
        /\ LET events == IF h_last'.reported
                         THEN <<Event(phase, "hook", hook_key(id), h_last'.executed)>>
                         ELSE <<>>
           IN  IF ~h_last'.ret THEN exit_sync(events)
               ELSE IF sy_i < last_position(phase)
               THEN /\ sy_pc' = sy_pc
                    /\ sy_i' = sy_i + 1
                    /\ sy_log' = sy_log \o events
               ELSE leave_phase(phase, events)
        /\ UNCHANGED <<plan_vars, svc_vars, dot_vars>>
        /\ UNCHANGED <<missing_modules, sy_opts, sy_prev, st_last, ledger_vars>>

SyncPreHooks ==
    /\ sy_pc = "pre"
    /\ sync_hook("pre")

SyncPostHooks ==
    /\ sy_pc = "post"
    /\ sync_hook("post")

\* The package phase, lines 415-444. stop tells where the phase ends early:
\* the user declines the removal, the configured helper is not there, or the
\* install or the removal fails.
SyncPackages ==
    LET declared == get_declared_packages
        plan == PackagePlan(declared, pl_installed, pl_orphans)
        prune_enabled == resolve_prune_mode(pl_prune, "none")
        removal == to_remove(plan.undeclared, plan.orphans, prune_enabled)
        stops == IF sy_opts.dry THEN {"none"}
                 ELSE {"none"}
                      \cup (IF removal # <<>> THEN {"declined", "helper", "remove"} ELSE {})
                      \cup (IF plan.to_install # <<>> THEN {"helper", "install"} ELSE {})
    IN  \E stop \in stops :
          LET installs == ~sy_opts.dry /\ stop \in {"none", "remove"} /\ plan.to_install # <<>>
              removes == ~sy_opts.dry /\ stop = "none" /\ removal # <<>>
              events ==
                  [i \in DOMAIN plan.to_install |->
                      Event("packages", "install", <<plan.to_install[i]>>, installs)]
                  \o [i \in DOMAIN removal |->
                      Event("packages", "remove", <<removal[i]>>, removes)]
          IN  /\ sy_pc = "packages"
              /\ pl_installed' = (IF installs THEN pl_installed \cup Range(plan.to_install)
                                  ELSE pl_installed)
                                 \ (IF removes THEN Range(removal) ELSE {})
              /\ pl_orphans' = IF removes THEN pl_orphans \ Range(removal) ELSE pl_orphans
              /\ IF stop = "none" THEN leave_phase("packages", events)
                 ELSE exit_sync(events \o <<Event("packages", "stopped", <<stop>>, FALSE)>>)
              /\ UNCHANGED <<pl_declared, pl_prune, pl_result, pl_again, pl_stage, pl_mode>>
              /\ UNCHANGED mod_packages
              /\ UNCHANGED <<hook_vars, svc_vars, dot_vars>>
              /\ UNCHANGED <<missing_modules, sy_opts, sy_prev, st_last, ledger_vars>>

\* The dotfile phase, lines 447-451
SyncDotfilesPhase ==
    /\ sy_pc = "dotfiles"
    /\ sync_dotfiles(sy_opts.dry)
    /\ LET events ==
              [i \in DOMAIN d_last'.conflicts |->
                  Event("dotfiles", "conflict", d_last'.conflicts[i].target, FALSE)]
              \o [i \in DOMAIN d_last'.reported |->
                  Event("dotfiles", "link", d_last'.reported[i].target, ~sy_opts.dry)]
       IN  IF d_last'.ret THEN leave_phase("dotfiles", events) ELSE exit_sync(events)
    /\ UNCHANGED <<plan_vars, hook_vars, svc_vars>>
    /\ UNCHANGED <<missing_modules, sy_opts, sy_prev, st_last, ledger_vars>>

\* The service phase, lines 454-458
SyncServicesPhase ==
    /\ sy_pc = "services"
    /\ LET q == service_queues
       IN  \E n \in Outcomes(q, sy_opts.dry) :
             /\ sync_services(q, sy_opts.dry, n)
             /\ LET events ==
                       [i \in DOMAIN q.to_enable |->
                           Event("services", "enable",
                                 service_key(q.to_enable[i].name, q.to_enable[i].user),
                                 ~sy_opts.dry /\ i <= n)]
                       \o [i \in DOMAIN q.to_disable |->
                           Event("services", "disable",
                                 service_key(q.to_disable[i].name, q.to_disable[i].user),
                                 ~sy_opts.dry /\ Len(q.to_enable) + i <= n)]
                IN  IF s_last'.ret THEN leave_phase("services", events) ELSE exit_sync(events)
    /\ UNCHANGED <<plan_vars, hook_vars, dot_vars>>
    /\ UNCHANGED <<missing_modules, sy_opts, sy_prev, st_last, ledger_vars>>

\* status, lines 312-344. get_declared_packages skips a missing module;
\* get_all_dotfiles and get_declared_services load every module of the host
\* and do not catch the exception.
Status ==
    LET raises == \E i \in DOMAIN Modules : load_module_raises(Modules[i])
    IN  /\ sy_pc = "idle"
        /\ st_last' = [op |-> "status",
                       warned |-> validate_modules # <<>>,
                       completed |-> ~raises,
                       counts |-> IF raises THEN <<0, 0, 0>>
                                  ELSE <<Len(get_declared_packages), Len(get_all_dotfiles),
                                         Len(get_declared_services)>>]
        /\ UNCHANGED <<plan_vars, hook_vars, svc_vars, dot_vars>>
        /\ UNCHANGED <<missing_modules, sy_pc, sy_i, sy_opts, sy_log, sy_prev, ledger_vars>>


MaxSyncDecls == 3

\* What the modules of a sync run may declare and what the system may hold:
\* links of the sources x to the target T1 or its backup path, the system
\* service foo.service, the package neovim, an undeclared package and an orphan.
SyncTargets == {T1, backup_path(T1)}
SyncLinks ==
    {df \in DotLinks : /\ df.source[2] = "x" /\ df.target \in SyncTargets
                       /\ df.module = Modules[1] => df.target = T1}
SyncUnits == {s \in Services : s.name = <<"foo.service">> /\ ~s.user}
SyncHookIds == {<<Host, "pre_sync">>, <<Modules[1], "pre">>, <<Modules[2], "post">>}

\* Number of hooks a hook configuration holds
HookCount(c) == Cardinality({id \in HookIds : c[id] # "none"})

\* The entry at a target before the first sync: nothing, a file of the user,
\* or the symlink an earlier sync made for the first link to that target.
initial_entry(links, target, kind) ==
    IF \A i \in DOMAIN links : links[i].target # target THEN Absent
    ELSE CASE kind = "absent" -> Absent
           [] kind = "file" -> File(<<target, "old">>)
           [] OTHER -> Link(links[CHOOSE i \in DOMAIN links :
                                    /\ links[i].target = target
                                    /\ \A j \in 1..(i - 1) : links[j].target # target].source)

\* A sync run starts with a fresh ledger and at most MaxSyncDecls declared
\* or installed items; a missing module declares nothing.
InitSync ==
    /\ missing_modules \in SUBSET ModuleSet
    /\ hook_cfg \in {c \in [HookIds -> {"none", "once"}] :
                        /\ HookCount(c) <= MaxSyncDecls
                        /\ \A id \in HookIds :
                              id \notin SyncHookIds \/ id[1] \in missing_modules
                                  => c[id] = "none"}
    /\ hooks_run = {}
    /\ ok_runs = [id \in HookIds |-> 0]
    /\ h_last = NoHookOp
    /\ InitTreeIdle
    /\ mod_dotfiles \in {c \in [ModuleSet -> SeqsUpTo(SyncLinks, 1)] :
                            /\ \A m \in ModuleSet :
                                  /\ \A i \in DOMAIN c[m] : c[m][i].module = m
                                  /\ m \in missing_modules => c[m] = <<>>
                            /\ HookCount(hook_cfg) + Len(c[Modules[1]]) + Len(c[Modules[2]])
                                 <= MaxSyncDecls}
    /\ \E kinds \in [SyncTargets -> {"absent", "file", "synced"}] :
          /\ \A t \in SyncTargets :
                (\A i \in DOMAIN get_all_dotfiles : get_all_dotfiles[i].target # t)
                    => kinds[t] = "absent"
          /\ fs = [p \in Paths |->
                      IF p \in SyncTargets THEN initial_entry(get_all_dotfiles, p, kinds[p])
                      ELSE Absent]
    /\ d_last = NoDotOp
    /\ mod_services \in {c \in [ModuleSet -> SeqsUpTo(SyncUnits, 1)] :
                            /\ c[Modules[2]] = <<>>
                            /\ \A m \in ModuleSet : m \in missing_modules => c[m] = <<>>
                            /\ HookCount(hook_cfg) + Len(get_all_dotfiles)
                                 + Len(c[Modules[1]]) + Len(c[Modules[2]]) <= MaxSyncDecls}
    /\ sys_enabled \in SUBSET {<<s.name, s.user>> : s \in Range(get_declared_services)}
    /\ tracked = {}
    /\ s_last = NoSvcOp
    /\ pl_declared = <<>>
    /\ mod_packages \in {c \in [ModuleSet -> SeqsUpTo({"neovim"}, 2)] : c[Modules[2]] = <<>>}
    /\ pl_installed \in SUBSET {"base"}
    /\ pl_orphans \in SUBSET {"ripgrep"}
    /\ pl_prune \in BOOLEAN
    /\ HookCount(hook_cfg) + Len(get_all_dotfiles)
         + Len(mod_services[Modules[1]]) + Len(mod_services[Modules[2]])
         + Len(mod_packages[Modules[1]])
         + Cardinality(pl_installed \ Range(mod_packages[Modules[1]]))
         + Cardinality(pl_orphans) <= MaxSyncDecls
    /\ pl_result = NoPlan
    /\ pl_again = NoPlan
    /\ pl_stage = "input"
    /\ pl_mode = NoMode
    /\ sy_pc = "idle"
    /\ sy_i = 0
    /\ sy_opts = NoOptions
    /\ sy_log = <<>>
    /\ sy_prev = NoPrev
    /\ st_last = NoStatus
    /\ InitLedgerIdle

---------------------------------------------------------------------------
(* state.py: the ledger file as the hook and service operations load it    *)

\* The forms of state.yaml: no file, a file with no document in it, the
\* mapping {} with neither key, a mapping with hooks_run and services.
FileForms == {"missing", "empty", "no_keys", "mapping"}

\* load_state that opens the file without looking whether it is there
load_state_unguarded(file) ==
    CASE file = "missing" -> [raised |-> TRUE, keys |-> {}]
      [] file = "empty" -> [raised |-> FALSE, keys |-> {}]
      [] file = "no_keys" -> [raised |-> FALSE, keys |-> {}]
      [] OTHER -> [raised |-> FALSE, keys |-> {"hooks_run", "services"}]

\* load_state: {} when the file is missing (lines 8-9) or yaml.safe_load
\* gives None (line 11); raised: the call ends with an exception. keys: the
\* top-level keys of the dict it returns.
load_state(file) ==
    CASE file = "missing" -> [raised |-> FALSE, keys |-> {}]
      [] file = "empty" -> [raised |-> FALSE, keys |-> {}]
      [] file = "no_keys" -> [raised |-> FALSE, keys |-> {}]
      [] OTHER -> [raised |-> FALSE, keys |-> {"hooks_run", "services"}]

\* state.get(key, {}): the keys of the entry, none when the entry is not there
state_get(state, key, entries) == IF key \in state.keys THEN entries ELSE {}

\* What an operation that loaded (or did not need) the ledger leaves in
\* lg_last, and the form of the file after it: save_state writes a mapping.
LedgerOp(op, loaded) ==
    [op |-> op, file |-> state_file, loaded |-> loaded,
     raised |-> loaded /\ load_state(state_file).raised]

file_after(saved) == IF saved THEN "mapping" ELSE state_file

\* The dict load_state returns: the two sections of the ledger
loaded_state == [hooks_run |-> hooks_run, services |-> tracked]

\* A save that writes a dict holding the one section only
save_section_alone(state, section, entries) ==
    [[hooks_run |-> {}, services |-> {}] EXCEPT ![section] = entries]

\* state[section] = entries; save_state(state): the loaded dict is written
\* back whole, with the one section replaced (hooks.py:96-99, 214-215,
\* services.py:120-122)
save_section(state, section, entries) == [state EXCEPT ![section] = entries]

\* What the ledger runs range over: the hooks of the host and of the first
\* module, one system service declared by the first module.
LedgerHookIds == {<<Host, "pre_sync">>, <<Modules[1], "pre">>, <<Modules[1], "post">>}
LedgerResetNames == {hook_key(id) : id \in LedgerHookIds} \cup {id[1] : id \in LedgerHookIds}

\* A hook run on the ledger file: should_run_hook loads the ledger for a
\* configured hook without always; mark_hook_run saves it.
LedgerRunHook ==
    \E id \in LedgerHookIds, dry \in BOOLEAN, ok \in BOOLEAN :
        LET op == IF id[1] = Host THEN "run_host_hook" ELSE "run_module_hook"
            loaded == hook_cfg[id] = "once"
        IN  /\ lg_last' = LedgerOp(op, loaded)
            /\ IF lg_last'.raised
               THEN UNCHANGED <<hook_vars, state_file, tracked>>
               ELSE /\ RunHook(op, id, dry, ok)
                    /\ state_file' = file_after(hooks_run' # hooks_run)
                    /\ tracked' = IF hooks_run' # hooks_run
                                  THEN save_section(loaded_state, "hooks_run", hooks_run').services
                                  ELSE tracked
            /\ UNCHANGED <<mod_services, sys_enabled, s_last>>
            /\ UNCHANGED <<plan_vars, dot_vars, sync_vars>>

\* reset_hook on the ledger file: loads it and always saves it (lines 214-215)
LedgerResetHook ==
    \E name \in LedgerResetNames :
        /\ lg_last' = LedgerOp("reset_hook", TRUE)
        /\ IF lg_last'.raised
           THEN UNCHANGED <<hook_vars, state_file, tracked>>
           ELSE /\ reset_hook(name)
                /\ state_file' = file_after(TRUE)
                /\ tracked' = save_section(loaded_state, "hooks_run", hooks_run').services
        /\ UNCHANGED <<mod_services, sys_enabled, s_last>>
        /\ UNCHANGED <<plan_vars, dot_vars, sync_vars>>

\* sync_services on the ledger file: get_tracked_services loads it,
\* save_tracked_services saves it after a batch that succeeded.
LedgerSyncServices ==
    LET q == service_queues
    IN  \E dry \in BOOLEAN : \E n \in Outcomes(q, dry) :
          /\ lg_last' = LedgerOp("sync_services", TRUE)
          /\ IF lg_last'.raised
             THEN UNCHANGED <<svc_vars, state_file, hooks_run>>
             ELSE /\ sync_services(q, dry, n)
                  /\ state_file' = file_after(~dry /\ s_last'.ret
                                                /\ Len(q.to_enable) + Len(q.to_disable) > 0)
                  /\ hooks_run' = IF ~dry /\ s_last'.ret
                                       /\ Len(q.to_enable) + Len(q.to_disable) > 0
                                    THEN save_section(loaded_state, "services", tracked').hooks_run
                                    ELSE hooks_run
          /\ UNCHANGED <<hook_cfg, ok_runs, h_last>>
          /\ UNCHANGED <<plan_vars, dot_vars, sync_vars>>

\* The ledger file in any form with no entry in it; any hooks; the service
\* declared or not, enabled by hand or not.
InitLedger ==
    /\ state_file \in FileForms
    /\ lg_last = [NoLedgerOp EXCEPT !.file = state_file]
    /\ hook_cfg \in {c \in HookConfigs : \A id \in HookIds \ LedgerHookIds : c[id] = "none"}
    /\ hooks_run = state_get(load_state(state_file), "hooks_run", {})
    /\ ok_runs = [id \in HookIds |-> 0]
    /\ h_last = NoHookOp
    /\ mod_services \in {c \in [ModuleSet -> SeqsUpTo(SyncUnits, 1)] : c[Modules[2]] = <<>>}
    /\ sys_enabled \in SUBSET {<<s.name, s.user>> : s \in SyncUnits}
    /\ tracked = state_get(load_state(state_file), "services", {})
    /\ s_last = NoSvcOp
    /\ InitPlanIdle /\ InitDotfilesIdle /\ InitSyncIdle

---------------------------------------------------------------------------
(* config.py, plan.py: the declared packages of the host and their plan    *)

\* The packages of all modules together are at most MaxDeclared.
PackageConfigs ==
    {c \in [ModuleSet -> SeqsUpTo(Pkgs, MaxDeclared)] :
        Len(c[Modules[1]]) + Len(c[Modules[2]]) <= MaxDeclared}

\* declared = get_declared_packages() (cli.py:325, 415)
GetDeclaredPackages ==
    /\ pl_stage = "input"
    /\ pl_declared' = get_declared_packages
    /\ pl_stage' = "declared"
    /\ UNCHANGED <<pl_installed, pl_orphans, pl_prune, pl_result, pl_again, pl_mode, mod_packages>>
    /\ UNCHANGED <<hook_vars, svc_vars, dot_vars, sync_vars, ledger_vars>>

\* The plan of the declared packages against what is installed
PlanDeclared ==
    /\ pl_stage = "declared"
    /\ pl_result' = compute_package_plan(pl_declared, pl_installed, pl_orphans, pl_prune)
    /\ pl_stage' = "planned"
    /\ UNCHANGED <<pl_declared, pl_installed, pl_orphans, pl_prune, pl_again, pl_mode, mod_packages>>
    /\ UNCHANGED <<hook_vars, svc_vars, dot_vars, sync_vars, ledger_vars>>

\* Any packages in the modules, any module missing on disk; any packages
\* installed explicitly, any others orphaned.
InitDeclared ==
    /\ mod_packages \in PackageConfigs
    /\ missing_modules \in SUBSET ModuleSet
    /\ pl_installed \in SUBSET Pkgs
    /\ pl_orphans \in SUBSET (Pkgs \ pl_installed)
    /\ pl_prune \in BOOLEAN
    /\ pl_declared = <<>> /\ pl_result = NoPlan /\ pl_again = NoPlan
    /\ pl_stage = "input" /\ pl_mode = NoMode
    /\ sy_pc = "idle" /\ sy_i = 0 /\ sy_opts = NoOptions /\ sy_log = <<>>
    /\ sy_prev = NoPrev /\ st_last = NoStatus
    /\ InitHooksIdle /\ InitServicesIdle /\ InitDotfilesIdle /\ InitLedgerIdle

---------------------------------------------------------------------------
(* Specifications                                                          *)

InitSpecPlan ==
    InitPlan /\ InitHooksIdle /\ InitServicesIdle /\ InitDotfilesIdle /\ InitSyncIdle /\ InitLedgerIdle

NextPlan == ResolvePrune \/ ComputePlan \/ Replan

SpecPlan == InitSpecPlan /\ [][NextPlan]_vars

InitSpecHooks ==
    InitPlanIdle /\ InitHooks /\ InitServicesIdle /\ InitDotfilesIdle /\ InitSyncIdle /\ InitLedgerIdle

NextHooks == RunModuleHook \/ RunHostHook \/ ResetHook \/ EditHook \/ ForceRunHook

SpecHooks == InitSpecHooks /\ [][NextHooks]_vars

InitSpecServices ==
    InitPlanIdle /\ InitHooksIdle /\ InitServices /\ InitDotfilesIdle /\ InitSyncIdle /\ InitLedgerIdle

NextServices == SyncServices \/ UserDeclaresService \/ UserDeletesService \/ UserSystemctl

SpecServices == InitSpecServices /\ [][NextServices]_vars

InitSpecDotfiles ==
    InitPlanIdle /\ InitHooksIdle /\ InitServicesIdle /\ InitDotfiles /\ InitSyncIdle /\ InitLedgerIdle

NextDotfiles == SyncDotfiles \/ UserWritesFile

SpecDotfiles == InitSpecDotfiles /\ [][NextDotfiles]_vars

NextLedger == LedgerRunHook \/ LedgerResetHook \/ LedgerSyncServices

SpecLedger == InitLedger /\ [][NextLedger]_vars

NextDeclared == GetDeclaredPackages \/ PlanDeclared

SpecDeclared == InitDeclared /\ [][NextDeclared]_vars

InitSpecResolve ==
    InitResolve /\ InitPlanIdle /\ InitHooksIdle /\ InitServicesIdle /\ InitSyncIdle /\ InitLedgerIdle

NextResolve == GetModuleDotfiles \/ UserEditsEntry

SpecResolve == InitSpecResolve /\ [][NextResolve]_vars

NextSync ==
    \/ SyncStart \/ SyncPreHooks \/ SyncPackages \/ SyncDotfilesPhase
    \/ SyncServicesPhase \/ SyncPostHooks \/ Status

SpecSync == InitSync /\ [][NextSync]_vars

---------------------------------------------------------------------------
(* Claims about plan.py (checked under SpecPlan)                           *)

\* C9: for every declared sequence D and installed set I, to_install holds
\* exactly the elements of D that are not in I, in the order of their first
\* occurrence in D, each at most once.
C9_ToInstallEachOnce ==
    pl_stage = "planned" =>
        LET to_install == pl_result[1]
        IN  /\ Range(to_install) = Range(pl_declared) \ pl_installed
            /\ NoDup(to_install)
            /\ \A i, j \in DOMAIN to_install :
                  i < j => FirstIndex(pl_declared, to_install[i])
                             < FirstIndex(pl_declared, to_install[j])

\* C10: computing the plan again with installed' = installed + to_install
\* gives an empty to_install.
C10_ReplanInstallsNothing ==
    pl_stage = "replanned" => pl_again[1] = <<>>

\* C10 witness: the first plan installed something and the plan was recomputed.
C10_Witness ==
    /\ pl_stage = "replanned"
    /\ Len(pl_result[1]) >= 2
    /\ pl_installed # Range(pl_result[1])

\* C11: with prune enabled, undeclared is the sorted difference of the
\* explicitly installed packages and the declared ones; with prune disabled
\* the removal list of sync is empty whatever undeclared and orphans hold.
C11_UndeclaredAndRemovalList ==
    pl_stage = "planned" =>
        /\ pl_prune => pl_result[2] = sorted(pl_installed \ Range(pl_declared))
        /\ ~pl_prune =>
              /\ to_remove(pl_result[2], pl_result[3], pl_prune) = <<>>
              /\ \A u, o \in SUBSET Pkgs :
                    to_remove(sorted(u), sorted(o), pl_prune) = <<>>

\* C11 witness: a plan with prune enabled, two undeclared packages and an
\* installed package that is declared.
C11_Witness ==
    /\ pl_stage = "planned" /\ pl_prune
    /\ Len(pl_result[2]) = 2
    /\ Range(pl_declared) \cap pl_installed # {}

\* C24: the undeclared and orphans lists of the plan do not depend on the
\* prune mode: with prune disabled as with prune enabled they are the
\* installed packages that are not declared, and the orphans.
C24_ListsIndependentOfPrune ==
    pl_stage = "planned" =>
        /\ pl_result[2] = sorted(pl_installed \ Range(pl_declared))
        /\ pl_result[3] = sorted(pl_orphans)

\* C26: the resolved prune mode is the override when there is one (on or
\* off), else the host's auto_prune entry, else enabled when the host
\* config has no such entry.
C26_PruneModeResolution ==
    pl_mode.resolved =>
        pl_prune = CASE pl_mode.override = "on" -> TRUE
                     [] pl_mode.override = "off" -> FALSE
                     [] pl_mode.host = "true" -> TRUE
                     [] pl_mode.host = "false" -> FALSE
                     [] OTHER -> TRUE

\* C26 witness: the override --no-prune won over a host with auto_prune
\* true, and the plan was computed with prune disabled.
C26_Witness ==
    /\ pl_mode.resolved /\ pl_mode.override = "off" /\ pl_mode.host = "true"
    /\ pl_stage = "planned" /\ ~pl_prune

---------------------------------------------------------------------------
(* Claims about the hook ledger (checked under SpecHooks)                  *)

IsHookRun(h) == h.op \in {"run_module_hook", "run_host_hook"}

\* C1: a configured hook without always is executed successfully at most
\* once between resets naming it: its key is in the ledger exactly when it
\* has run since the last such reset, and an invocation executes the script
\* exactly when it is not a dry run and the key is not in the ledger.
C1_OnceUntilReset ==
    \A id \in HookIds :
        hook_cfg[id] = "once" =>
            /\ ok_runs[id] <= 1
            /\ hook_key(id) \in hooks_run <=> ok_runs[id] = 1
            /\ IsHookRun(h_last) /\ h_last.id = id =>
                  (h_last.executed <=> ~h_last.dry /\ hook_key(id) \notin h_last.before)

\* C1 witness: a hook without always ran, was reset, and has just run again.
C1_Witness ==
    /\ IsHookRun(h_last)
    /\ hook_cfg[h_last.id] = "once"
    /\ h_last.executed /\ h_last.ret /\ h_last.rearmed
    /\ ok_runs[h_last.id] = 1

\* C2: an invocation of a hook with always=true that is not a dry run
\* executes the script whatever the ledger holds, and no invocation of it
\* changes whether its key is in the ledger.
C2_AlwaysRunsUnrecorded ==
    IsHookRun(h_last) /\ hook_cfg[h_last.id] = "always" =>
        /\ ~h_last.dry => h_last.executed
        /\ hook_key(h_last.id) \in hooks_run <=> hook_key(h_last.id) \in h_last.before

\* C2 witness: an always hook whose key is in the ledger (it ran before
\* always was set) has just been executed.
C2_Witness ==
    /\ IsHookRun(h_last)
    /\ hook_cfg[h_last.id] = "always"
    /\ h_last.executed /\ h_last.ret
    /\ hook_key(h_last.id) \in h_last.before

\* The hook ids a name stands for: the one with that key, or those of that owner
KeyIds(name) == {id \in HookIds : hook_key(id) = name}
OwnerIds(name) == {id \in HookIds : id[1] = name}

\* C18: force_run_hook on the key of a configured hook executes the script,
\* whether or not the key is in the ledger and whether or not always is set,
\* and leaves the ledger as it was.
C18_ForceRunIgnoresLedger ==
    /\ h_last.op = "force_run_hook"
    /\ \E id \in KeyIds(h_last.name) : hook_cfg[id] # "none"
    => h_last.executed /\ hooks_run = h_last.before

\* C18 witness: a forced run has just executed a hook without always whose
\* key is in the ledger.
C18_Witness ==
    /\ h_last.op = "force_run_hook" /\ h_last.executed /\ h_last.ret
    /\ h_last.name \in hooks_run
    /\ \E id \in KeyIds(h_last.name) : hook_cfg[id] = "once"

\* C19: reset_hook with a key removes exactly that key from hooks_run, with
\* an owner name exactly the keys of that owner; every other key stays.
C19_ResetRemovesExactly ==
    h_last.op = "reset_hook" =>
        LET ids == IF KeyIds(h_last.name) # {} THEN KeyIds(h_last.name)
                   ELSE OwnerIds(h_last.name)
        IN  hooks_run = h_last.before \ {hook_key(id) : id \in ids}

\* C19 witness: a reset by the owner name "a" removed the key of module a
\* and left the key of module ab, whose name starts with "a".
C19_Witness ==
    /\ h_last.op = "reset_hook" /\ h_last.name = <<"a">>
    /\ \E id \in OwnerIds(<<"a">>) : hook_key(id) \in h_last.before \ hooks_run
    /\ \E id \in OwnerIds(<<"a", "b">>) : hook_key(id) \in hooks_run

\* The last operation was a run of the hook id that executed the script
ExecutedLast(id, ok) ==
    IsHookRun(h_last) /\ h_last.id = id /\ h_last.executed /\ (h_last.ret <=> ok)

\* A step that is a real (not dry) run of a configured hook id
RealRunOf(id) ==
    /\ IsHookRun(h_last') /\ h_last'.id = id /\ ~h_last'.dry
    /\ hook_cfg[id] # "none"
    /\ h_last' # h_last \/ hooks_run' # hooks_run \/ ok_runs' # ok_runs

\* C27 as stated: a hook whose script failed is not recorded by that run
\* and its next real invocation executes it again; a hook whose script succeeded
\* before (and was not reset since) is in the ledger and a later real
\* invocation does not execute it again.
C27_FailedRerunSucceededSkipped ==
    /\ [](\A id \in HookIds :
            ExecutedLast(id, FALSE) =>
                /\ hooks_run = h_last.before
                /\ hook_cfg[id] = "once" => hook_key(id) \notin hooks_run)
    /\ [][\A id \in HookIds :
            RealRunOf(id) =>
                /\ ExecutedLast(id, FALSE) => h_last'.executed
                /\ ExecutedLast(id, TRUE) \/ ok_runs[id] >= 1 =>
                      hook_key(id) \in hooks_run /\ ~h_last'.executed]_vars

\* C27 amended: the same, the second half for hooks without always only;
\* a hook with always is never recorded and every real invocation executes
\* it again.
C27_FailedRerunRecordedSkipped ==
    /\ [](\A id \in HookIds :
            ExecutedLast(id, FALSE) =>
                /\ hooks_run = h_last.before
                /\ hook_cfg[id] = "once" => hook_key(id) \notin hooks_run)
    /\ [][\A id \in HookIds :
            RealRunOf(id) =>
                /\ ExecutedLast(id, FALSE) => h_last'.executed
                /\ hook_cfg[id] = "once" /\ (ExecutedLast(id, TRUE) \/ ok_runs[id] >= 1) =>
                      hook_key(id) \in hooks_run /\ ~h_last'.executed
                /\ hook_cfg[id] = "always" =>
                      hooks_run' = hooks_run /\ h_last'.executed]_vars

\* C27 witness: a hook without always failed while another one, which had
\* succeeded before, was in the ledger; the failed one is not.
C27_Witness ==
    \E id, other \in HookIds :
        /\ id # other
        /\ hook_cfg[id] = "once" /\ ExecutedLast(id, FALSE)
        /\ hook_cfg[other] = "once" /\ ok_runs[other] = 1
        /\ hooks_run = {hook_key(other)}

---------------------------------------------------------------------------
(* Claims about service reconciliation (checked under SpecServices)        *)

\* Every declaration of every active module, in host module order
AllServiceDeclarations ==
    Concat([i \in DOMAIN Modules |-> mod_services[Modules[i]]])

ServiceId(s) == <<s.name, s.user>>
IdKey(id) == service_key(id[1], id[2])
QueuedIds(queue) == {ServiceId(queue[i]) : i \in DOMAIN queue}

\* (name, user) pairs some active module declares, enabled or not
MentionedIds == {ServiceId(s) : s \in Range(AllServiceDeclarations)}

\* (name, user) pairs whose first declaration has enabled=true
DeclaredEnabledIds ==
    LET all == AllServiceDeclarations
    IN  {id \in ServiceIds :
            \E i \in DOMAIN all :
                /\ ServiceId(all[i]) = id /\ all[i].enabled
                /\ \A j \in 1..(i - 1) : ServiceId(all[j]) # id}

JustSynced == s_last.op = "sync_services"

\* C3: a tracked (name, user) that no active module declares any more is
\* queued for disable by sync_services exactly when the probe reports it
\* enabled.
C3_TrackedUndeclaredQueued ==
    [][s_last'.op = "sync_services" =>
        \A id \in ServiceIds :
            IdKey(id) \in tracked /\ id \notin MentionedIds =>
                (id \in QueuedIds(s_last'.to_disable) <=> id \in sys_enabled)]_vars

\* C3 witness: a service no module declares was queued for disable and disabled.
C3_Witness ==
    /\ JustSynced /\ ~s_last.dry /\ s_last.ret
    /\ \E id \in QueuedIds(s_last.to_disable) : id \notin MentionedIds

\* C4 as stated: after every real sync_services call that returns success,
\* also one that found nothing to do, the ledger is exactly the declared
\* services with enabled=true.
C4_LedgerAfterEverySuccess ==
    JustSynced /\ ~s_last.dry /\ s_last.ret =>
        tracked = {IdKey(id) : id \in DeclaredEnabledIds}

\* C4 amended: after a real sync_services call that queued at least one
\* action and returns success the ledger is exactly the declared services
\* with enabled=true; a call that queued nothing leaves the ledger as it was.
C4_LedgerAfterApply ==
    /\ [](JustSynced /\ ~s_last.dry /\ s_last.ret
            /\ Len(s_last.to_enable) + Len(s_last.to_disable) > 0
          => tracked = {IdKey(id) : id \in DeclaredEnabledIds})
    /\ [][s_last'.op = "sync_services"
            /\ Len(s_last'.to_enable) + Len(s_last'.to_disable) = 0
          => tracked' = tracked]_vars

\* C4 witness: a real call enabled one service, disabled another and
\* rewrote the ledger.
C4_Witness ==
    /\ JustSynced /\ ~s_last.dry /\ s_last.ret
    /\ s_last.to_enable # <<>> /\ s_last.to_disable # <<>>
    /\ tracked # {}

\* C5: a service that is enabled, declared by no active module and not in
\* the ledger is not queued for disable and is still enabled after the call.
C5_UntrackedUndeclaredUntouched ==
    [][s_last'.op = "sync_services" =>
        \A id \in ServiceIds :
            id \in sys_enabled /\ id \notin MentionedIds /\ IdKey(id) \notin tracked =>
                id \notin QueuedIds(s_last'.to_disable) /\ id \in sys_enabled']_vars

\* C5 witness: a real call disabled a tracked service no module declares
\* and left alone another enabled one that is neither declared nor tracked.
C5_Witness ==
    /\ JustSynced /\ ~s_last.dry /\ s_last.ret
    /\ \E id \in QueuedIds(s_last.to_disable) : id \notin MentionedIds
    /\ \E id \in sys_enabled : id \notin MentionedIds

\* C6: when a batch aborts on a failed action, the ledger already holds the
\* services enabled earlier in that batch.
C6_LedgerRecordsPartialBatch ==
    JustSynced /\ ~s_last.dry /\ ~s_last.ret =>
        \A i \in DOMAIN s_last.to_enable :
            i <= s_last.done => IdKey(ServiceId(s_last.to_enable[i])) \in tracked

\* Number of actions the last call queued
QueuedTotal == Len(s_last.to_enable) + Len(s_last.to_disable)

\* The batch of the last call in the order it is carried out (enables,
\* then disables), and the services its first n actions touched
LastBatch == s_last.to_enable \o s_last.to_disable
TouchedBy(n) == {ServiceId(LastBatch[i]) : i \in 1..n}

\* C21: when an enable or disable of a batch fails, sync_services returns
\* failure and no action queued after the failed one has been carried out:
\* a service queued for enable behind it is still not enabled, one queued
\* for disable behind it is still enabled (unless an action that succeeded
\* before the failure was about the same service).
C21_FirstFailureAbortsBatch ==
    JustSynced /\ ~s_last.dry /\ s_last.done < QueuedTotal =>
        /\ ~s_last.ret
        /\ \A i \in DOMAIN LastBatch :
              i > s_last.done /\ ServiceId(LastBatch[i]) \notin TouchedBy(s_last.done) =>
                  (ServiceId(LastBatch[i]) \in sys_enabled <=> i > Len(s_last.to_enable))

\* C21 witness: a batch failed at an action that had another one queued
\* behind it, after an earlier action of the batch had succeeded.
C21_Witness ==
    /\ JustSynced /\ ~s_last.dry /\ ~s_last.ret
    /\ s_last.done >= 1
    /\ QueuedTotal >= s_last.done + 2
    /\ ServiceId(LastBatch[QueuedTotal]) \notin TouchedBy(s_last.done)

\* (name, user) pairs whose first declaration has enabled=false
DeclaredDisabledIds == MentionedIds \ DeclaredEnabledIds

\* C28: sync_services queues for enable exactly the declared services with
\* enabled=true that are not enabled, each once, and for disable exactly
\* the declared services with enabled=false that are enabled and the
\* tracked services outside the declared-and-enabled set that are enabled.
C28_QueuesExactly ==
    [][s_last'.op = "sync_services" =>
          /\ QueuedIds(s_last'.to_enable) = DeclaredEnabledIds \ sys_enabled
          /\ Len(s_last'.to_enable) = Cardinality(QueuedIds(s_last'.to_enable))
          /\ \A i \in DOMAIN s_last'.to_enable : s_last'.to_enable[i].enabled
          /\ QueuedIds(s_last'.to_disable) =
                (DeclaredDisabledIds \cap sys_enabled)
                \cup {id \in sys_enabled :
                         IdKey(id) \in tracked /\ id \notin DeclaredEnabledIds}]_vars

\* C28 witness: one call queued a service for enable, a declared service
\* with enabled=false for disable and a tracked service that no module
\* declares for disable.
C28_Witness ==
    /\ JustSynced /\ s_last.to_enable # <<>>
    /\ \E id \in QueuedIds(s_last.to_disable) : id \in MentionedIds
    /\ \E id \in QueuedIds(s_last.to_disable) : id \notin MentionedIds

\* C29: right after a real sync_services that succeeded, with the
\* declarations unchanged, a second sync_services finds nothing to enable
\* and nothing to disable.
C29_SecondSyncQueuesNothing ==
    JustSynced /\ ~s_last.dry /\ s_last.ret =>
        /\ service_queues.to_enable = <<>>
        /\ service_queues.to_disable = <<>>

\* C29 witness: a real call that enabled a service and disabled a tracked
\* one that no module declares any more has succeeded.
C29_Witness ==
    /\ JustSynced /\ ~s_last.dry /\ s_last.ret
    /\ s_last.to_enable # <<>>
    /\ \E id \in QueuedIds(s_last.to_disable) : id \notin MentionedIds
    /\ s_last.done = QueuedTotal

\* The positions in the declarations where a (name, user) appears first
FirstDeclarations ==
    LET all == AllServiceDeclarations
    IN  {i \in DOMAIN all : \A j \in 1..(i - 1) : ServiceId(all[j]) # ServiceId(all[i])}

\* C33: get_declared_services holds each declared (name, user) once, as its
\* first declaration in host module order (so the first declaration's
\* enabled flag decides) and in the order of these first declarations; a
\* unit declared in system and in user scope appears once per scope.
C33_DeclaredServicesFirstWins ==
    LET all == AllServiceDeclarations
        declared == get_declared_services
    IN  /\ Len(declared) = Cardinality(FirstDeclarations)
        /\ \A k \in DOMAIN declared :
              \E i \in FirstDeclarations :
                  /\ declared[k] = all[i]
                  /\ Cardinality({j \in FirstDeclarations : j < i}) = k - 1
        /\ QueuedIds(declared) = MentionedIds

\* C33 witness: a service declared enabled and then, in a later
\* declaration, disabled was enabled by the sync.
C33_Witness ==
    /\ JustSynced /\ ~s_last.dry /\ s_last.ret
    /\ \E i, j \in DOMAIN AllServiceDeclarations :
          /\ i < j
          /\ ServiceId(AllServiceDeclarations[i]) = ServiceId(AllServiceDeclarations[j])
          /\ AllServiceDeclarations[i].enabled /\ ~AllServiceDeclarations[j].enabled
          /\ ServiceId(AllServiceDeclarations[i]) \in QueuedIds(s_last.to_enable)
          /\ ServiceId(AllServiceDeclarations[i]) \in sys_enabled

\* The (name, user) pairs of a queue, in queue order
QueueIdSeq(queue) == [i \in DOMAIN queue |-> ServiceId(queue[i])]

\* C37: in one sync_services call every (name, user) is queued for at most
\* one action: the enable queue and the disable queue share no service and
\* neither holds a service twice.
C37_QueuedAtMostOnce ==
    JustSynced =>
        /\ QueuedIds(s_last.to_enable) \cap QueuedIds(s_last.to_disable) = {}
        /\ NoDup(QueueIdSeq(s_last.to_enable))
        /\ NoDup(QueueIdSeq(s_last.to_disable))

---------------------------------------------------------------------------
(* Claims about dotfile convergence (checked under SpecDotfiles)           *)

\* Every resolved link of every active module, in host module order
AllLinks == Concat([i \in DOMAIN Modules |-> mod_dotfiles[Modules[i]]])

Claimers(t) == {i \in DOMAIN AllLinks : AllLinks[i].target = t}

\* Two active modules map (distinct) sources to the target t
TwoModulesClaim(t) ==
    \E i, j \in Claimers(t) :
        /\ AllLinks[i].module # AllLinks[j].module
        /\ AllLinks[i].source # AllLinks[j].source

ConflictsOn(t) == {k \in DOMAIN d_last.conflicts : d_last.conflicts[k].target = t}

DotSynced == d_last.op = "sync_dotfiles"

C8_SecondSyncMutatesNothing ==
    DotSynced /\ d_last.after_sync => d_last.mutations = 0

\* C22: no sync_dotfiles run deletes or overwrites user content: a regular
\* file or directory that is somewhere before the run is somewhere after it
\* (a file found at a target that needs its link is at the sibling backup
\* path), also when it is the backup an earlier run made.
C22_UserContentNeverLost ==
    [][d_last'.op = "sync_dotfiles" =>
          \A p \in Paths :
              fs[p].kind = "file" => \E q \in Paths : fs'[q] = fs[p]]_vars

\* The steps of a run that change the file system
IsMutation(step) == step.act \in {"rename", "unlink", "symlink"}

\* C23 (dotfile links): in a real sync_dotfiles the line reporting a link
\* is printed before the link is changed: every rename, unlink and symlink
\* at a target comes after the "added" line of that target.
C23_ReportedBeforeApplied ==
    DotSynced /\ ~d_last.dry =>
        \A j \in DOMAIN d_last.steps :
            IsMutation(d_last.steps[j]) =>
                \E i \in 1..(j - 1) : d_last.steps[i] = Step("added", d_last.steps[j].path)

\* The modules owning the links that claim the target t
ClaimingModules(t) == {AllLinks[i].module : i \in Claimers(t)}

\* The modules named by the conflict records reported for the target t
NamedModules(t) == UNION {Range(d_last.conflicts[k].modules) : k \in ConflictsOn(t)}

\* C31: check_conflicts reports a target exactly when links of more than one
\* distinct owning module claim it, and the records reported for a target
\* together name every module claiming it.
C31_ConflictIffTwoModules ==
    DotSynced =>
        \A t \in Targets :
            /\ ConflictsOn(t) # {} <=> Cardinality(ClaimingModules(t)) > 1
            /\ ConflictsOn(t) # {} => NamedModules(t) = ClaimingModules(t)

\* A real sync_dotfiles has just returned success
RealSyncSucceeds == d_last'.op = "sync_dotfiles" /\ ~d_last'.dry /\ d_last'.ret

\* C32: after a real sync_dotfiles that returns success every resolved
\* link's target is a symlink to its declared source; a target that already
\* was such a symlink is what it was, and a target that was a symlink
\* pointing elsewhere was unlinked and linked again, never renamed to a
\* backup.
C32_SuccessMeansLinked ==
    [][RealSyncSucceeds =>
          \A i \in DOMAIN AllLinks :
              LET df == AllLinks[i]
              IN  /\ is_synced(fs', df)
                  /\ is_synced(fs, df) => fs'[df.target] = fs[df.target]
                  /\ is_symlink(fs, df.target) /\ ~is_synced(fs, df) =>
                        /\ Step("unlink", df.target) \in Range(d_last'.steps)
                        /\ Step("rename", df.target) \notin Range(d_last'.steps)
                        /\ fs'[backup_path(df.target)] = fs[backup_path(df.target)]]_vars

---------------------------------------------------------------------------
(* Claims about the sync and status commands (checked under SpecSync)      *)

\* What a sync may change outside its own bookkeeping: the hook ledger, the
\* tracked-services ledger, the packages, the enabled services, the paths.
Mutable == <<hooks_run, ok_runs, tracked, pl_installed, pl_orphans, sys_enabled, fs>>

\* C12: when a module of the host is missing, a sync stops at once: it
\* never leaves the start for a phase, reports nothing, executes no hook
\* and leaves the ledgers, the packages, the services and the paths as
\* they were.
C12_MissingModuleStopsSync ==
    [][missing_modules # {} =>
          /\ sy_pc' \in {"idle", "exited"}
          /\ sy_log' = <<>>
          /\ ~h_last'.executed
          /\ UNCHANGED Mutable]_vars

\* C12 witness: a sync stopped at the validation while a host hook, a
\* package to install and a dotfile to link were waiting.
C12_Witness ==
    /\ missing_modules # {} /\ sy_pc = "exited" /\ ~sy_opts.dry
    /\ hook_cfg[<<Host, "pre_sync">>] = "once"
    /\ get_declared_packages # <<>>
    /\ get_all_dotfiles # <<>>

\* C13: a status run while a module of the host is missing warns about it
\* and still comes to its end, reporting the counts of the declared
\* packages, dotfiles and services of the modules that exist.
C13_StatusCompletesWithMissingModule ==
    st_last.op = "status" /\ missing_modules # {} =>
        /\ st_last.warned
        /\ st_last.completed
        /\ st_last.counts = <<Len(get_declared_packages), Len(get_all_dotfiles),
                              Len(get_declared_services)>>

\* The last hook call was a pre hook of this invocation whose script failed
PreHookFailed ==
    /\ IsHookRun(h_last) /\ ~h_last.ret
    /\ h_last.id[2] \in {"pre_sync", "pre"}

\* C14: when the host pre_sync hook or a module's pre hook fails, the sync
\* is over: all it has done is run pre hooks, the failed one last, and
\* nothing happens afterwards (no package, dotfile or service change and
\* no further pre or post hook).
C14_FailedPreHookAbortsSync ==
    /\ [](PreHookFailed =>
            /\ sy_pc = "exited"
            /\ sy_log # <<>>
            /\ sy_log[Len(sy_log)] = Event("pre", "hook", h_last.name, TRUE)
            /\ \A i \in DOMAIN sy_log : sy_log[i].phase = "pre" /\ sy_log[i].kind = "hook")
    /\ [][PreHookFailed => UNCHANGED <<Mutable, h_last, sy_pc, sy_log>>]_vars

\* C14 witness: the pre hook of the first module failed after the host
\* pre_sync hook had run, while a declared package was not installed.
C14_Witness ==
    /\ PreHookFailed /\ h_last.id = <<Modules[1], "pre">>
    /\ Len(sy_log) = 2
    /\ \E p \in Range(get_declared_packages) : p \notin pl_installed

\* The kinds of the events a sync invocation has reported so far
LoggedKinds == {sy_log[i].kind : i \in DOMAIN sy_log}

\* C15: no step of a dry-run sync has a side effect: no hook script is
\* executed, the hook ledger and the tracked services are unchanged, no
\* package is installed or removed, no service is enabled or disabled and
\* no path is renamed, unlinked or created.
C15_DryRunChangesNothing ==
    [][sy_opts'.dry =>
          /\ UNCHANGED Mutable
          /\ h_last' # h_last => ~h_last'.executed
          /\ d_last' # d_last => d_last'.mutations = 0
          /\ s_last' # s_last => s_last'.done = 0]_vars

\* C15 witness: a dry run came to its end after reporting a hook it would
\* run, a dotfile it would link and a service it would enable.
C15_Witness ==
    /\ sy_pc = "done" /\ sy_opts.dry
    /\ {"hook", "link", "enable"} \subseteq LoggedKinds

\* The decisions in a log, in the order they were reported: which hook,
\* package, link or service, and what is done about it.
Decision(e) == <<e.phase, e.kind, e.what>>

IsDecision(e) == e.kind \in {"hook", "install", "remove", "link", "enable", "disable"}

RECURSIVE Decisions(_)
Decisions(log) ==
    IF log = <<>> THEN <<>>
    ELSE (IF IsDecision(Head(log)) THEN <<Decision(Head(log))>> ELSE <<>>)
         \o Decisions(Tail(log))

\* A real sync that came to its end, started from the state from which a
\* dry run with the same options had come to its end just before.
RealAfterDryRun ==
    /\ sy_pc = "done" /\ ~sy_opts.dry
    /\ sy_prev.pc = "done" /\ sy_prev.opts = [sy_opts EXCEPT !.dry = TRUE]

\* C16: from the same declarations, system state and ledger, the dry run
\* reports exactly the decisions (hooks, installs and removals, links,
\* enables and disables) that the real sync makes and applies.
C16_DryRunReportsRealDecisions ==
    RealAfterDryRun =>
        /\ Decisions(sy_log) = Decisions(sy_prev.log)
        /\ \A i \in DOMAIN sy_log : IsDecision(sy_log[i]) => sy_log[i].applied

\* The place of a phase in the pipeline the claim states
PhaseRank(phase) ==
    CASE phase = "pre" -> 1
      [] phase = "packages" -> 2
      [] phase = "dotfiles" -> 3
      [] phase = "services" -> 4
      [] phase = "post" -> 5

\* The phases before a given one that the options of the run do not skip
\* have finished within the first n events of the log.
EarlierPhasesFinished(phase, n) ==
    \A p \in {"pre", "packages", "dotfiles", "services", "post"} :
        PhaseRank(p) < PhaseRank(phase) /\ phase_enabled(p, sy_opts) =>
            \E i \in 1..n : sy_log[i] = Finished(p)

\* C17: the phases of a sync occur in the order pre hooks, packages,
\* dotfiles, services, post hooks: whatever a phase does comes after every
\* earlier phase of the run has finished (packages after the pre hooks,
\* dotfiles and services after the packages, post hooks after dotfiles and
\* services), never after the phase itself has finished, and never after
\* anything of a later phase.
C17_PhasesInFixedOrder ==
    /\ Running => EarlierPhasesFinished(sy_pc, Len(sy_log))
    /\ \A j \in DOMAIN sy_log :
          /\ EarlierPhasesFinished(sy_log[j].phase, j - 1)
          /\ \A i \in 1..(j - 1) :
                /\ PhaseRank(sy_log[i].phase) <= PhaseRank(sy_log[j].phase)
                /\ sy_log[i] # Finished(sy_log[j].phase)

\* C17 witness: a real sync with no phase skipped came to its end after
\* installing a package, linking a dotfile and enabling a service.
C17_Witness ==
    /\ sy_pc = "done" /\ sy_opts = NoOptions
    /\ {"install", "link", "enable"} \subseteq LoggedKinds
    /\ \A i \in DOMAIN sy_log : IsDecision(sy_log[i]) => sy_log[i].applied

\* C20: a dotfile conflict blocks the dotfile phase only: a sync that
\* found one goes on to the service phase and the post hooks, so it never
\* ends in the dotfile phase, and when it is over every phase after the
\* dotfiles that its options do not skip has been carried out.
C20_ConflictBlocksDotfilesOnly ==
    "conflict" \in LoggedKinds =>
        /\ sy_pc = "exited" => sy_log[Len(sy_log)].phase \in {"services", "post"}
        /\ sy_pc = "done" => EarlierPhasesFinished("post", Len(sy_log))

---------------------------------------------------------------------------
(* Claims about the ledger file (checked under SpecLedger)                 *)

\* The forms of the ledger file that hold nothing
EmptyForms == {"missing", "empty", "no_keys"}

\* The last operation found the ledger file missing or empty
OnEmptyLedger == lg_last.op # "none" /\ lg_last.file \in EmptyForms

\* C25: a missing or empty ledger means that nothing has run yet and is
\* never an error: while the file is missing or empty every configured
\* hook without always is due and no service is tracked; a hook run on it
\* reports the hook and executes it unless it is a dry run, a reset on it
\* leaves an empty ledger, a service reconciliation on it queues no service
\* that is not declared, and none of them ends with an exception.
C25_EmptyLedgerIsNothingRun ==
    /\ state_file \in EmptyForms =>
          /\ \A id \in HookIds : hook_cfg[id] = "once" => should_run_hook(hook_key(id), FALSE)
          /\ get_tracked_services = {}
    /\ OnEmptyLedger =>
          /\ ~lg_last.raised
          /\ lg_last.op \in {"run_module_hook", "run_host_hook"} =>
                /\ h_last.op = lg_last.op
                /\ hook_cfg[h_last.id] = "once" =>
                      h_last.reported /\ (h_last.executed <=> ~h_last.dry)
          /\ lg_last.op = "reset_hook" =>
                h_last.op = "reset_hook" /\ hooks_run = {} /\ state_file = "mapping"
          /\ lg_last.op = "sync_services" =>
                /\ s_last.op = "sync_services"
                /\ QueuedIds(s_last.to_disable) \subseteq MentionedIds

\* C25 witness: with no ledger file, a hook without always was executed
\* and recorded in the file the run created.
C25_Witness ==
    /\ lg_last.file = "missing" /\ lg_last.op = "run_module_hook" /\ ~lg_last.raised
    /\ hook_cfg[h_last.id] = "once" /\ h_last.executed /\ h_last.ret
    /\ state_file = "mapping" /\ h_last.name \in hooks_run

\* The operations that write the hooks_run section of the ledger
HookLedgerOps == {"run_host_hook", "run_module_hook", "reset_hook"}

\* C38: the two sections of the ledger are independent: a hook run that
\* marks the hook and a reset leave the tracked services as they were, and
\* a service sync that rewrites the tracked services leaves hooks_run as it
\* was, whatever ran before.
C38_LedgerSectionsIndependent ==
    [][/\ lg_last'.op \in HookLedgerOps => tracked' = tracked
       /\ lg_last'.op = "sync_services" => hooks_run' = hooks_run]_vars

\* C38 witness: a hook was marked as run in a ledger that tracks a service,
\* which is still tracked.
C38_Witness ==
    /\ lg_last.op \in {"run_host_hook", "run_module_hook"}
    /\ h_last.name \in hooks_run \ h_last.before
    /\ tracked # {}

---------------------------------------------------------------------------
(* Claims about failures during sync (checked under SpecSync)              *)

\* The package phase of the invocation stopped for the given reason
PackagesStopped(stop) ==
    \E i \in DOMAIN sy_log : sy_log[i] = Event("packages", "stopped", <<stop>>, FALSE)

\* An external action of the invocation has failed: a hook script, the
\* install or the removal of packages, the dotfile sync or the service sync.
ActionFailed ==
    /\ sy_pc # "idle"
    /\ \/ IsHookRun(h_last) /\ ~h_last.ret
       \/ PackagesStopped("install") \/ PackagesStopped("remove")
       \/ d_last.op = "sync_dotfiles" /\ ~d_last.ret
       \/ s_last.op = "sync_services" /\ ~s_last.ret

\* C30: when an external action fails the sync halts there: the invocation
\* is over, the phase it failed in did not finish, nothing changes
\* afterwards (no later action, no later phase), and after a failed install
\* no package has been removed.
C30_FailureHaltsSync ==
    /\ [](ActionFailed =>
            /\ sy_pc = "exited"
            /\ sy_log # <<>> => Finished(sy_log[Len(sy_log)].phase) \notin Range(sy_log))
    /\ [](PackagesStopped("install") =>
            \A i \in DOMAIN sy_log : sy_log[i].kind \in {"install", "remove"} => ~sy_log[i].applied)
    /\ [][ActionFailed =>
            UNCHANGED <<Mutable, h_last, d_last, s_last, sy_pc, sy_log>>]_vars

\* C30 witness: the install failed while packages were waiting to be removed.
C30_Witness ==
    /\ PackagesStopped("install") /\ sy_pc = "exited"
    /\ "remove" \in LoggedKinds

---------------------------------------------------------------------------
(* Claims about the declared packages (checked under SpecDeclared)         *)

\* The host's modules that are on disk, as positions in host order
PresentModules == {i \in DOMAIN Modules : Modules[i] \notin missing_modules}

\* Where a package is declared first: the first present module holding it
\* and its first position there
FirstDeclared(p) ==
    LET i == CHOOSE i \in PresentModules :
                 /\ p \in Range(mod_packages[Modules[i]])
                 /\ \A j \in PresentModules : j < i => p \notin Range(mod_packages[Modules[j]])
    IN  <<i, FirstIndex(mod_packages[Modules[i]], p)>>

Precedes(a, b) == a[1] < b[1] \/ (a[1] = b[1] /\ a[2] < b[2])

\* The example: modules base [base] and editor [neovim, ripgrep], base installed
ExampleInput ==
    /\ mod_packages = (Modules[1] :> <<"base">> @@ Modules[2] :> <<"neovim", "ripgrep">>)
    /\ missing_modules = {}
    /\ pl_installed = {"base"} /\ pl_orphans = {}

\* C34: get_declared_packages returns the packages of the host's modules
\* that are on disk, each once, ordered by where it is declared first
\* (module order, then position in the module); for the example the plan is
\* toInstall [neovim, ripgrep], undeclared [], orphans [].
C34_DeclaredPackagesStable ==
    /\ pl_stage \in {"declared", "planned"} =>
          /\ Range(pl_declared) = UNION {Range(mod_packages[Modules[i]]) : i \in PresentModules}
          /\ NoDup(pl_declared)
          /\ \A i, j \in DOMAIN pl_declared :
                i < j => Precedes(FirstDeclared(pl_declared[i]), FirstDeclared(pl_declared[j]))
    /\ pl_stage = "planned" /\ ExampleInput =>
          pl_result = << <<"neovim", "ripgrep">>, <<>>, <<>> >>

\* C34 witness: the first module is missing on disk and held a package of
\* its own, the second declares one package twice, and the plan installs it.
C34_Witness ==
    /\ pl_stage = "planned"
    /\ missing_modules = {Modules[1]}
    /\ Range(mod_packages[Modules[1]]) \ Range(mod_packages[Modules[2]]) # {}
    /\ Len(mod_packages[Modules[2]]) = 2 /\ Len(pl_declared) = 1
    /\ pl_result[1] = pl_declared

\* C36: with prune enabled, no declared package is in the removal list
\* (undeclared and orphans together) that sync hands to remove_packages,
\* also when a declared package is installed only as an orphaned dependency.
C36_DeclaredNeverRemoved ==
    pl_stage = "planned" /\ pl_prune =>
        Range(to_remove(pl_result[2], pl_result[3], pl_prune)) \cap Range(pl_declared) = {}

---------------------------------------------------------------------------
(* Claims about dotfile resolution (checked under SpecResolve)             *)

Resolved == r_last.op = "get_module_dotfiles"

\* The entries directly under the dotfiles/ directory of module m
EntriesOf(m) ==
    IF mod_tree[m].dir.exists
    THEN {n \in EntryNames : mod_tree[m].dir.entries[n] # "absent"}
    ELSE {}

\* The positions of the mapping of module m whose key is kept: the source
\* <module>/dotfiles/<name> exists, and is a directory when the key is
\* marked with a trailing slash
KeptItems(m) ==
    LET items == mod_tree[m].decl.items
    IN  {i \in DOMAIN items :
            \E n \in EntriesOf(m) :
                /\ items[i].key \in {<<n>>, <<n, "/">>}
                /\ items[i].key = <<n, "/">> => mod_tree[m].dir.entries[n] = "dir"}

\* C35: get_module_dotfiles yields no link for an absent or false
\* declaration; for true one link per entry directly under dotfiles/, with
\* target ~/.config/<entryName>; for a mapping one link per kept key, in
\* the order of the keys, from the key's source to its explicit target.
C35_DotfileResolution ==
    Resolved =>
        LET m == r_last.module
            kind == mod_tree[m].decl.kind
            items == mod_tree[m].decl.items
            links == mod_dotfiles[m]
        IN  /\ kind \in {"absent", "false"} => links = <<>>
            /\ kind = "true" =>
                  /\ Len(links) = Cardinality(EntriesOf(m))
                  /\ Range(links) = {DotLink(<<m, n>>, <<".config", n>>) : n \in EntriesOf(m)}
            /\ kind = "mapping" =>
                  /\ Len(links) = Cardinality(KeptItems(m))
                  /\ \A k \in DOMAIN links :
                        \E i \in KeptItems(m) :
                            /\ Cardinality({j \in KeptItems(m) : j < i}) = k - 1
                            /\ links[k].module = m
                            /\ links[k].target = items[i].target
                            /\ \E n \in EntryNames :
                                  /\ links[k].source = <<m, n>>
                                  /\ items[i].key \in {<<n>>, <<n, "/">>}

\* C35 witness: of a mapping with two keys, one marked as a directory whose
\* source is a regular file and one whose source is a directory, the first
\* was skipped and the second gave the module's only link.
C35_Witness ==
    /\ Resolved /\ r_last.module = Modules[1]
    /\ mod_tree[Modules[1]].decl.kind = "mapping"
    /\ Len(mod_tree[Modules[1]].decl.items) = 2
    /\ mod_tree[Modules[1]].decl.items[1].key = <<"x", "/">>
    /\ mod_tree[Modules[1]].dir.entries["x"] = "file"
    /\ mod_tree[Modules[1]].dir.entries["y"] = "dir"
    /\ mod_dotfiles[Modules[1]] = <<DotLink(<<Modules[1], "y">>, T2)>>

====
